---------------------------- MODULE Spec2Model ----------------------------
(***************************************************************************)
(* A model of the ownership and smart-pointer demonstrations of            *)
(* rust-by-example: src/22-pointers/pointers.rs (Rc, Arc with two spawned  *)
(* threads, RefCell, Mutex), src/24-pointers/pointers.rs and the two       *)
(* ownership samples.                                                      *)
(*                                                                         *)
(* The samples call the standard library's Rc, Arc, RefCell and Mutex.     *)
(* Each library call the source makes is modelled by what the call does    *)
(* to the state the program can observe: Arc::clone is one atomic          *)
(* fetch-add on the strong count followed by the return of the new         *)
(* handle, dropping an Arc handle is one atomic fetch-sub whose returned   *)
(* value decides whether this thread destroys the payload, RefCell keeps   *)
(* a signed borrow flag (0 unused, n > 0 shared borrows, -1 exclusive),    *)
(* Mutex::lock blocks until the lock is free.                              *)
(*                                                                         *)
(* Spec is main() of src/22-pointers/pointers.rs, statement by statement,  *)
(* with its two spawned threads interleaved.  SpecArc, SpecCell, SpecMutex *)
(* and SpecOwner run the same operations from every thread and in every    *)
(* order, for the statements that are about all uses of a primitive.       *)
(***************************************************************************)
EXTENDS Integers, Sequences, FiniteSets, TLC

\* ------------------------------------------------------------ bounds
\* Spawned threads are 1..NThreads; thread 0 is main.
NThreads == 2
\* Most Arc handles alive at once in SpecArc.
MaxHandles == 3
\* Most Ref guards alive at once in SpecCell.
MaxRefs == 3
\* The largest payload a write of SpecCell or SpecMutex produces.
MaxData == 8
\* String variables (s1, s2, ...) and String payloads in SpecOwner.
NHandles == 3
MaxPayloads == 2
\* push_str calls on one String
MaxPushes == 1
\* Small i32 arguments are -SmallInt..SmallInt.
SmallInt == 3
\* Slices hold at most MaxLen elements, each in 0..MaxVal.
MaxLen == 3
MaxVal == 2
\* Matched values are -MaxMatch..MaxMatch and the ends of i32.
MaxMatch == 60

Main == 0
Threads == 0..NThreads
Spawned == 1..NThreads

VARIABLES
    pc,         \* pc[t]: the statement thread t is at
    stdout,     \* what println! has written, in order: <<tag, value>>
    rcStrong,   \* Rc: the strong count of the allocation
    rcLive,     \* Rc: live handles (rc1, rc2, rc3)
    rcData,     \* Rc: the payload
    rcFreed,    \* Rc: times the payload was destroyed
    arcStrong,  \* Arc: the atomic strong count
    arcLive,    \* Arc: arcLive[t] handles are owned by thread t
    arcOp,      \* Arc: "idle", or the part of clone/drop thread t has left
    arcOld,     \* Arc: the value thread t's fetch_add / fetch_sub returned
    arcSeen,    \* Arc: the value thread t's strong_count returned
    arcData,    \* Arc: the payload
    arcFreedBy, \* Arc: the threads that ran the payload's destructor
    cellFlag,   \* RefCell: the borrow flag, 0 unused, n > 0 shared, -1 exclusive
    cellRefs,   \* RefCell: live Ref guards (shared borrows)
    cellMuts,   \* RefCell: live RefMut guards (exclusive borrows)
    cellData,   \* RefCell: the payload
    cellRet,    \* RefCell: what the last call on the cell returned
    mxLocked,   \* Mutex: the lock state, TRUE for Locked
    mxGuard,    \* Mutex: mxGuard[t] iff thread t owns a MutexGuard
    mxData,     \* Mutex: the payload
    mxPoisoned, \* Mutex: the poison flag
    hState,     \* Owner: hState[h] is "unbound", "valid", "moved" or "ended"
    hPtr,       \* Owner: the payload handle h points at (0: none)
    heapOwner,  \* Owner: the handle that owns payload p (0: none)
    heapDrops,  \* Owner: times payload p was destroyed
    heapData,   \* Owner: the characters of payload p
    heapNext,   \* Owner: the next payload String::from allocates
    ownLast,    \* Owner: the last statement, <<what, handle, outcome>>
    fnCall,     \* a function of the samples: <<name, arguments>> of the call
    fnRet,      \* ... and what the call returned, <<kind, value>>
    slice,      \* Sorter: the slice being sorted
    sortI,      \* Sorter: i of the outer loop (from 0, as in the source)
    sortJ,      \* Sorter: j of the inner loop
    minIndex,   \* SelectionSorter: min_index
    ctrIncs     \* Counter: calls of increment() that have returned

ctlVars == <<pc, stdout>>
rcVars == <<rcStrong, rcLive, rcData, rcFreed>>
arcVars == <<arcStrong, arcLive, arcOp, arcOld, arcSeen, arcData, arcFreedBy>>
cellVars == <<cellFlag, cellRefs, cellMuts, cellData, cellRet>>
mxVars == <<mxLocked, mxGuard, mxData, mxPoisoned>>
ownVars ==
    <<hState, hPtr, heapOwner, heapDrops, heapData, heapNext, ownLast>>
fnVars == <<fnCall, fnRet>>
sortVars == <<slice, sortI, sortJ, minIndex>>
libVars == <<fnVars, sortVars, ctrIncs>>
vars == <<ctlVars, rcVars, arcVars, cellVars, mxVars, ownVars, libVars>>

RECURSIVE SumUpTo(_, _)
SumUpTo(f, n) == IF n < 0 THEN 0 ELSE f[n] + SumUpTo(f, n - 1)
\* Handles alive over all threads.
ArcLiveTotal == SumUpTo(arcLive, NThreads)

\* println!("...: {}", v)
Println(tag, v) == stdout' = Append(stdout, <<tag, v>>)

\* ------------------------------------------------------------ Rc
\* Rc::new(5)
RcNew(v) ==
    /\ rcStrong' = 1
    /\ rcLive' = 1
    /\ rcData' = v
    /\ UNCHANGED rcFreed

\* A clone that copies the payload into an allocation of its own.
RcCloneDeep ==
    /\ rcLive > 0
    /\ rcLive' = rcLive + 1
    /\ UNCHANGED <<rcStrong, rcData, rcFreed>>

\* Rc::clone(&rc1) and rc1.clone(): the count goes up by one and the new
\* handle points at the same allocation.
RcClone ==
    /\ rcLive > 0
    /\ rcStrong' = rcStrong + 1
    /\ rcLive' = rcLive + 1
    /\ UNCHANGED <<rcData, rcFreed>>

\* A drop that destroys the payload whatever the count.
RcDropFreesAlways ==
    /\ rcLive > 0
    /\ rcStrong' = rcStrong - 1
    /\ rcLive' = rcLive - 1
    /\ rcFreed' = rcFreed + 1
    /\ UNCHANGED rcData
\* A handle goes out of scope: the count goes down by one, and the payload
\* is destroyed when it reaches zero.
RcDrop ==
    /\ rcLive > 0
    /\ rcStrong' = rcStrong - 1
    /\ rcLive' = rcLive - 1
    /\ rcFreed' = IF rcStrong - 1 = 0 THEN rcFreed + 1 ELSE rcFreed
    /\ UNCHANGED rcData

\* Rc::strong_count(&rc1)
RcStrongCount == rcStrong

\* ------------------------------------------------------------ Arc
\* Arc::new(5)
ArcNew(t, v) ==
    /\ arcStrong' = 1
    /\ arcLive' = [arcLive EXCEPT ![t] = 1]
    /\ arcData' = v
    /\ UNCHANGED <<arcOp, arcOld, arcSeen, arcFreedBy>>

\* A clone that copies the pointer and leaves the count alone.
ArcCloneIncNoCount(t) ==
    /\ arcOp[t] = "idle"
    /\ arcLive[t] > 0
    /\ arcOld' = [arcOld EXCEPT ![t] = arcStrong]
    /\ arcOp' = [arcOp EXCEPT ![t] = "clone_ret"]
    /\ UNCHANGED <<arcStrong, arcLive, arcSeen, arcData, arcFreedBy>>

\* Arc::clone(&arc1), arc1.clone(): the atomic fetch_add(1) on the count.
ArcCloneInc(t) ==
    /\ arcOp[t] = "idle"
    /\ arcLive[t] > 0
    /\ arcOld' = [arcOld EXCEPT ![t] = arcStrong]
    /\ arcStrong' = arcStrong + 1
    /\ arcOp' = [arcOp EXCEPT ![t] = "clone_ret"]
    /\ UNCHANGED <<arcLive, arcSeen, arcData, arcFreedBy>>

\* A clone that takes the payload out of the allocation for the new handle.
ArcCloneRetTakes(t) ==
    /\ arcOp[t] = "clone_ret"
    /\ arcLive' = [arcLive EXCEPT ![t] = @ + 1]
    /\ arcOp' = [arcOp EXCEPT ![t] = "idle"]
    /\ arcOld' = [arcOld EXCEPT ![t] = 0]
    /\ arcData' = 0
    /\ UNCHANGED <<arcStrong, arcSeen, arcFreedBy>>

\* ... and the return of the new handle to the caller.
ArcCloneRet(t) ==
    /\ arcOp[t] = "clone_ret"
    /\ arcLive' = [arcLive EXCEPT ![t] = @ + 1]
    /\ arcOp' = [arcOp EXCEPT ![t] = "idle"]
    /\ arcOld' = [arcOld EXCEPT ![t] = 0]
    /\ UNCHANGED <<arcStrong, arcSeen, arcData, arcFreedBy>>

\* A drop that forgets the handle without the fetch_sub.
ArcDropDecNoCount(t) ==
    /\ arcOp[t] = "idle"
    /\ arcLive[t] > 0
    /\ arcLive' = [arcLive EXCEPT ![t] = @ - 1]
    /\ arcOld' = [arcOld EXCEPT ![t] = arcStrong]
    /\ arcOp' = [arcOp EXCEPT ![t] = "drop_check"]
    /\ UNCHANGED <<arcStrong, arcSeen, arcData, arcFreedBy>>

\* A handle owned by t goes out of scope: the atomic fetch_sub(1).
ArcDropDec(t) ==
    /\ arcOp[t] = "idle"
    /\ arcLive[t] > 0
    /\ arcLive' = [arcLive EXCEPT ![t] = @ - 1]
    /\ arcOld' = [arcOld EXCEPT ![t] = arcStrong]
    /\ arcStrong' = arcStrong - 1
    /\ arcOp' = [arcOp EXCEPT ![t] = "drop_check"]
    /\ UNCHANGED <<arcSeen, arcData, arcFreedBy>>

\* The dropping thread reads the count again instead of using the value
\* its fetch_sub returned.
ArcWasLastReload(t) == arcStrong = 0
\* The dropping thread saw the count go from one to zero.
ArcWasLast(t) == arcOld[t] = 1

\* ... and the thread whose fetch_sub returned 1 destroys the payload.
ArcDropCheck(t) ==
    /\ arcOp[t] = "drop_check"
    /\ arcFreedBy' = IF ArcWasLast(t) THEN Append(arcFreedBy, t) ELSE arcFreedBy
    /\ arcOp' = [arcOp EXCEPT ![t] = "idle"]
    /\ arcOld' = [arcOld EXCEPT ![t] = 0]
    /\ UNCHANGED <<arcStrong, arcLive, arcSeen, arcData>>

\* Arc::strong_count(&arc): an atomic load of the count.
ArcStrongCount(t) ==
    /\ arcOp[t] = "idle"
    /\ arcLive[t] > 0
    /\ arcSeen' = [arcSeen EXCEPT ![t] = arcStrong]
    /\ UNCHANGED <<arcStrong, arcLive, arcOp, arcOld, arcData, arcFreedBy>>

\* thread::spawn(move || ...): a handle owned by t is moved into thread u.
ArcMove(t, u) ==
    /\ arcOp[t] = "idle"
    /\ arcLive[t] > 0
    /\ arcLive' = [arcLive EXCEPT ![t] = @ - 1, ![u] = @ + 1]
    /\ UNCHANGED <<arcStrong, arcOp, arcOld, arcSeen, arcData, arcFreedBy>>

\* ------------------------------------------------------------ RefCell
\* RefCell::new(v)
CellNew(v) ==
    /\ cellFlag' = 0
    /\ cellRefs' = 0
    /\ cellMuts' = 0
    /\ cellData' = v
    /\ cellRet' = "new"

\* A call on the cell panicked: the program is unwinding.
CellPanicked == cellRet \in {"BorrowError", "BorrowMutError"}

\* borrow() refusing a second shared borrow.
CellCanBorrowAlone == cellFlag = 0
\* borrow() finds the flag free for one more shared borrow.
CellCanBorrow == cellFlag >= 0
\* borrow_mut() checking for an exclusive borrow only.
CellCanBorrowMutShared == cellFlag >= 0
\* borrow_mut() finds the flag unused.
CellCanBorrowMut == cellFlag = 0

\* refcell.borrow(): a Ref guard, or the panic "already mutably borrowed".
CellBorrow ==
    /\ ~CellPanicked
    /\ IF CellCanBorrow
         THEN /\ cellFlag' = cellFlag + 1
              /\ cellRefs' = cellRefs + 1
              /\ cellRet' = "Ref"
         ELSE /\ cellRet' = "BorrowError"
              /\ UNCHANGED <<cellFlag, cellRefs>>
    /\ UNCHANGED <<cellMuts, cellData>>

\* A borrow_mut() that marks the cell as exclusively borrowed before it
\* finds out that it must fail.
CellBorrowMutDirtyFail ==
    /\ ~CellPanicked
    /\ cellFlag' = -1
    /\ IF CellCanBorrowMut
         THEN /\ cellMuts' = cellMuts + 1
              /\ cellRet' = "RefMut"
         ELSE /\ cellRet' = "BorrowMutError"
              /\ UNCHANGED cellMuts
    /\ UNCHANGED <<cellRefs, cellData>>
\* refcell.borrow_mut(): a RefMut guard, or the panic "already borrowed".
CellBorrowMut ==
    /\ ~CellPanicked
    /\ IF CellCanBorrowMut
         THEN /\ cellFlag' = cellFlag - 1
              /\ cellMuts' = cellMuts + 1
              /\ cellRet' = "RefMut"
         ELSE /\ cellRet' = "BorrowMutError"
              /\ UNCHANGED <<cellFlag, cellMuts>>
    /\ UNCHANGED <<cellRefs, cellData>>

\* A Ref guard drop that forgets to give the flag back.
CellDropRefKeepFlag ==
    /\ ~CellPanicked
    /\ cellRefs > 0
    /\ cellRefs' = cellRefs - 1
    /\ cellRet' = "drop"
    /\ UNCHANGED <<cellFlag, cellMuts, cellData>>
\* A Ref guard goes out of scope.
CellDropRef ==
    /\ ~CellPanicked
    /\ cellRefs > 0
    /\ cellFlag' = cellFlag - 1
    /\ cellRefs' = cellRefs - 1
    /\ cellRet' = "drop"
    /\ UNCHANGED <<cellMuts, cellData>>

\* A RefMut guard drop that leaves the flag at exclusive.
CellDropRefMutKeepFlag ==
    /\ ~CellPanicked
    /\ cellMuts > 0
    /\ cellMuts' = cellMuts - 1
    /\ cellRet' = "drop"
    /\ UNCHANGED <<cellFlag, cellRefs, cellData>>
\* A RefMut guard goes out of scope.
CellDropRefMut ==
    /\ ~CellPanicked
    /\ cellMuts > 0
    /\ cellFlag' = cellFlag + 1
    /\ cellMuts' = cellMuts - 1
    /\ cellRet' = "drop"
    /\ UNCHANGED <<cellRefs, cellData>>

\* *guard += 1 through a live RefMut.
CellWrite ==
    /\ ~CellPanicked
    /\ cellMuts > 0
    /\ cellData' = cellData + 1
    /\ cellRet' = "write"
    /\ UNCHANGED <<cellFlag, cellRefs, cellMuts>>

\* ------------------------------------------------------------ Mutex
\* Mutex::new(v)
MutexNew(v) ==
    /\ mxLocked' = FALSE
    /\ mxGuard' = [t \in Threads |-> FALSE]
    /\ mxData' = v
    /\ mxPoisoned' = FALSE

\* mutex.lock().unwrap() taking the lock whatever its state.
MutexLockNoWait(t) ==
    /\ mxLocked' = TRUE
    /\ mxGuard' = [mxGuard EXCEPT ![t] = TRUE]
    /\ UNCHANGED <<mxData, mxPoisoned>>

\* mutex.lock().unwrap(): blocks while the lock is held, then takes it and
\* returns the guard.
MutexLock(t) ==
    /\ ~mxLocked
    /\ mxLocked' = TRUE
    /\ mxGuard' = [mxGuard EXCEPT ![t] = TRUE]
    /\ UNCHANGED <<mxData, mxPoisoned>>

\* An increment of a copy of the payload: the payload itself is not written.
MutexWriteCopy(t) ==
    /\ mxGuard[t]
    /\ UNCHANGED <<mxLocked, mxGuard, mxData, mxPoisoned>>

\* *mutex_guard += 1
MutexWrite(t) ==
    /\ mxGuard[t]
    /\ mxData' = mxData + 1
    /\ UNCHANGED <<mxLocked, mxGuard, mxPoisoned>>

\* A guard drop that leaves the mutex locked.
MutexGuardDropKeepLocked(t) ==
    /\ mxGuard[t]
    /\ mxGuard' = [mxGuard EXCEPT ![t] = FALSE]
    /\ UNCHANGED <<mxLocked, mxData, mxPoisoned>>

\* drop(mutex_guard): the guard's destructor unlocks the mutex.
MutexGuardDrop(t) ==
    /\ mxGuard[t]
    /\ mxGuard' = [mxGuard EXCEPT ![t] = FALSE]
    /\ mxLocked' = FALSE
    /\ UNCHANGED <<mxData, mxPoisoned>>

\* println!("{:?}", mutex) formats the mutex through try_lock(): it takes
\* the lock when it is free and does not wait when it is held.
MutexTryLock(t) ==
    /\ ~mxGuard[t]
    /\ IF mxLocked
         THEN UNCHANGED <<mxLocked, mxGuard>>
         ELSE /\ mxLocked' = TRUE
              /\ mxGuard' = [mxGuard EXCEPT ![t] = TRUE]
    /\ UNCHANGED <<mxData, mxPoisoned>>

\* What {:?} then shows: the payload under the guard try_lock returned,
\* "<locked>" (here -1) when it returned none.
MutexDebug(t) == IF mxGuard[t] THEN mxData ELSE -1

\* An end of the formatting that unlocks the mutex even when try_lock()
\* returned no guard.
MutexDebugEndUnlocks(t) ==
    /\ mxGuard' = [mxGuard EXCEPT ![t] = FALSE]
    /\ mxLocked' = FALSE
    /\ UNCHANGED <<mxData, mxPoisoned>>

\* The end of the formatting: the guard of try_lock, if any, is dropped.
MutexDebugEnd(t) ==
    /\ mxGuard' = [mxGuard EXCEPT ![t] = FALSE]
    /\ mxLocked' = IF mxGuard[t] THEN FALSE ELSE mxLocked
    /\ UNCHANGED <<mxData, mxPoisoned>>

\* What mutex.lock() returns once it has the lock: Err(PoisonError) holding
\* the guard when the mutex is poisoned, Ok(guard) otherwise.
MutexLockResult == IF mxPoisoned THEN "Err" ELSE "Ok"

\* A guard that stays locked when its thread panics.
MutexGuardDropPanickingKeepLocked(t) ==
    /\ mxGuard[t]
    /\ mxGuard' = [mxGuard EXCEPT ![t] = FALSE]
    /\ mxPoisoned' = TRUE
    /\ UNCHANGED <<mxLocked, mxData>>

\* A guard dropped by a panic that does not poison the mutex.
MutexGuardDropPanickingNoPoison(t) ==
    /\ mxGuard[t]
    /\ mxGuard' = [mxGuard EXCEPT ![t] = FALSE]
    /\ mxLocked' = FALSE
    /\ UNCHANGED <<mxData, mxPoisoned>>

\* The thread panics with a guard alive: unwinding runs the guard's
\* destructor, which poisons the mutex and unlocks it.
MutexGuardDropPanicking(t) ==
    /\ mxGuard[t]
    /\ mxGuard' = [mxGuard EXCEPT ![t] = FALSE]
    /\ mxLocked' = FALSE
    /\ mxPoisoned' = TRUE
    /\ UNCHANGED mxData
\* ------------------------------------------------------------ Owner
Handles == 1..NHandles
Payloads == 1..MaxPayloads

\* "hello" and ", world", character by character.
Hello == <<"h", "e", "l", "l", "o">>
World == <<",", " ", "w", "o", "r", "l", "d">>

\* let s = String::from("hello");  and  let s7 = gives_ownership();
\* a new payload, owned by the variable it is bound to.
OwnNew(h) ==
    /\ hState[h] = "unbound"
    /\ heapNext \in Payloads
    /\ hState' = [hState EXCEPT ![h] = "valid"]
    /\ hPtr' = [hPtr EXCEPT ![h] = heapNext]
    /\ heapOwner' = [heapOwner EXCEPT ![heapNext] = h]
    /\ heapNext' = heapNext + 1
    /\ ownLast' = <<"new", h, "ok">>
    /\ heapData' = [heapData EXCEPT ![heapNext] = Hello]
    /\ UNCHANGED heapDrops

\* A move that leaves the source usable, as a copy of a scalar does.
OwnMoveKeepSource(a, b) ==
    /\ a # b
    /\ hState[a] = "valid"
    /\ hState[b] = "unbound"
    /\ hState' = [hState EXCEPT ![b] = "valid"]
    /\ hPtr' = [hPtr EXCEPT ![b] = hPtr[a]]
    /\ heapOwner' = [heapOwner EXCEPT ![hPtr[a]] = b]
    /\ ownLast' = <<"move", a, "ok">>
    /\ UNCHANGED <<heapDrops, heapData, heapNext>>

\* let s2 = s1;  and  let s9 = takes_and_gives_back(s8);
\* the pointer is copied to the destination, which now owns the payload,
\* and the source is invalidated.
OwnMove(a, b) ==
    /\ a # b
    /\ hState[a] = "valid"
    /\ hState[b] = "unbound"
    /\ hState' = [hState EXCEPT ![a] = "moved", ![b] = "valid"]
    /\ hPtr' = [hPtr EXCEPT ![b] = hPtr[a]]
    /\ heapOwner' = [heapOwner EXCEPT ![hPtr[a]] = b]
    /\ ownLast' = <<"move", a, "ok">>
    /\ UNCHANGED <<heapDrops, heapData, heapNext>>

\* A call by value that leaves the caller's variable usable.
OwnTakesKeepSource(a) ==
    /\ hState[a] = "valid"
    /\ heapOwner' = [heapOwner EXCEPT ![hPtr[a]] = 0]
    /\ heapDrops' = [heapDrops EXCEPT ![hPtr[a]] = @ + 1]
    /\ ownLast' = <<"call", a, "ok">>
    /\ UNCHANGED <<hState, hPtr, heapData, heapNext>>
\* takes_ownership(s6);  the payload moves into the parameter and is
\* dropped when the function returns.
OwnTakes(a) ==
    /\ hState[a] = "valid"
    /\ hState' = [hState EXCEPT ![a] = "moved"]
    /\ heapOwner' = [heapOwner EXCEPT ![hPtr[a]] = 0]
    /\ heapDrops' = [heapDrops EXCEPT ![hPtr[a]] = @ + 1]
    /\ ownLast' = <<"call", a, "ok">>
    /\ UNCHANGED <<hPtr, heapData, heapNext>>

\* println!("{}", s6);  a use of a variable in scope: accepted when the
\* variable holds a value, "value borrowed here after move" otherwise.
OwnUse(h) ==
    /\ hState[h] \in {"valid", "moved"}
    /\ ownLast' = <<"use", h, IF hState[h] = "valid" THEN "ok" ELSE "moved">>
    /\ UNCHANGED <<hState, hPtr, heapOwner, heapDrops, heapData, heapNext>>

\* An end of scope that drops the payload the variable points at, moved
\* out or not.
OwnScopeEndDropsMoved(h) ==
    /\ hState[h] \in {"valid", "moved"}
    /\ hState' = [hState EXCEPT ![h] = "ended"]
    /\ heapOwner' = IF hState[h] = "valid"
                      THEN [heapOwner EXCEPT ![hPtr[h]] = 0]
                      ELSE heapOwner
    /\ heapDrops' = [heapDrops EXCEPT ![hPtr[h]] = @ + 1]
    /\ ownLast' = <<"end", h, "ok">>
    /\ UNCHANGED <<hPtr, heapData, heapNext>>
\* } : the variable goes out of scope; its payload is dropped with it
\* unless it was moved out.
OwnScopeEnd(h) ==
    /\ hState[h] \in {"valid", "moved"}
    /\ hState' = [hState EXCEPT ![h] = "ended"]
    /\ IF hState[h] = "valid"
         THEN /\ heapOwner' = [heapOwner EXCEPT ![hPtr[h]] = 0]
              /\ heapDrops' = [heapDrops EXCEPT ![hPtr[h]] = @ + 1]
         ELSE UNCHANGED <<heapOwner, heapDrops>>
    /\ ownLast' = <<"end", h, "ok">>
    /\ UNCHANGED <<hPtr, heapData, heapNext>>

\* A change that appends to a copy of the String it was lent.
OwnChangeCopy(h) ==
    /\ hState[h] = "valid"
    /\ ownLast' = <<"borrow_mut", h, "ok">>
    /\ fnCall' = <<"change", h>>
    /\ fnRet' = <<"unit">>
    /\ UNCHANGED <<hState, hPtr, heapOwner, heapDrops, heapData, heapNext>>

\* change(&mut s12);  s.push_str(", world") through the mutable reference:
\* the characters are appended to the payload of the variable lent.
OwnChange(h) ==
    /\ hState[h] = "valid"
    /\ heapData' = [heapData EXCEPT ![hPtr[h]] = @ \o World]
    /\ ownLast' = <<"borrow_mut", h, "ok">>
    /\ fnCall' = <<"change", h>>
    /\ fnRet' = <<"unit">>
    /\ UNCHANGED <<hState, hPtr, heapOwner, heapDrops, heapNext>>

\* let length = calculate_length(&s10);  return s.len() through the shared
\* reference.
OwnCalculateLength(h) ==
    /\ hState[h] = "valid"
    /\ ownLast' = <<"borrow", h, "ok">>
    /\ fnCall' = <<"calculate_length", h>>
    /\ fnRet' = <<"usize", Len(heapData[hPtr[h]])>>
    /\ UNCHANGED <<hState, hPtr, heapOwner, heapDrops, heapData, heapNext>>
\* ------------------------------------------------------------ Result
\* i32: 32 bits, two's complement.
I32Max == 2147483647
I32Min == -I32Max - 1

Ok(v) == <<"Ok", v>>
Err(e) == <<"Err", e>>
Panic(m) == <<"panic", m>>

\* The quotient of x / y, rounded towards zero, for y # 0 and
\* (x, y) # (I32Min, -1).
TruncDiv(x, y) ==
    IF y = I32Min
      THEN (IF x = I32Min THEN 1 ELSE 0)
      ELSE LET ay == IF y < 0 THEN -y ELSE y
               fl == x \div ay
               tq == IF x < 0 /\ x % ay # 0 THEN fl + 1 ELSE fl
           IN  IF y < 0 THEN -tq ELSE tq

\* x / y on i32: the quotient, or the panic of a division that overflows.
I32Div(x, y) ==
    IF y = 0 THEN Panic("attempt to divide by zero")
    ELSE IF x = I32Min /\ y = -1 THEN Panic("attempt to divide with overflow")
    ELSE <<"i32", TruncDiv(x, y)>>

\* fn divide(x: i32, y: i32) -> Result<i32, String>
divide(x, y) ==
    IF y = 0
      THEN Err("Division by zero")
      ELSE LET q == I32Div(x, y) IN IF q[1] = "panic" THEN q ELSE Ok(q[2])

\* a * b stays within i32.
MulFits(a, b) ==
    IF a > 0
      THEN IF b > 0 THEN a <= TruncDiv(I32Max, b)
                    ELSE b >= TruncDiv(I32Min, a)
      ELSE IF b > 0 THEN a >= TruncDiv(I32Min, b)
                    ELSE a = 0 \/ b >= TruncDiv(I32Max, a)

\* A multiplication that reports no overflow.
WrappingMul(a, b) ==
    <<"Some", IF MulFits(a, b) THEN a * b ELSE 0>>

\* a.checked_mul(b): Some(a * b), or None when the product overflows.
CheckedMul(a, b) == IF MulFits(a, b) THEN <<"Some", a * b>> ELSE <<"None">>

\* fn multiply(a: i32, b: i32) -> Result<i32, String>
multiply(a, b) ==
    LET m == CheckedMul(a, b)
    IN  IF m[1] = "Some"
          THEN Ok(m[2])
          ELSE Err("Integer overflow on multiplication")

\* fn divide_and_multiply(i, j, k) -> Result<i32, Box<dyn Error>>
\* each ? returns the Err of its call to the caller.
divide_and_multiply(i, j, k) ==
    LET division == divide(i, j)
    IN  IF division[1] # "Ok" THEN division
        ELSE LET product == multiply(division[2], k)
             IN  IF product[1] # "Ok" THEN product ELSE Ok(product[2])

\* fn divide_and_multiply_alias(i, j, k) -> MyResult<i32>
divide_and_multiply_alias(i, j, k) ==
    LET calc_result == divide_and_multiply(i, j, k)
    IN  IF calc_result[1] # "Ok" THEN calc_result ELSE Ok(calc_result[2])
\* ------------------------------------------------------------ slices
\* A slice is a sequence; its indices start at 0.
InRange(s, k) == k >= 0 /\ k < Len(s)
Elem(s, k) == s[k + 1]

\* A swap that copies the second element over the first.
SwapOverwrite(s, a, b) == [s EXCEPT ![a + 1] = s[b + 1]]

\* slice.swap(a, b), for a and b in range
Swap(s, a, b) == [s EXCEPT ![a + 1] = s[b + 1], ![b + 1] = s[a + 1]]

\* fn first_element<T>(slice: &[T]) -> Option<&T>
\* A reference into the slice is the index it points at.
first_element(s) ==
    IF Len(s) = 0 THEN <<"None">> ELSE <<"Some", <<"ref", 0>>>>
\* A scan that moves on to a later element that is equal.
RECURSIVE LargestFromLast(_, _, _)
LargestFromLast(s, k, best) ==
    IF k >= Len(s) THEN best
    ELSE LargestFromLast(s, k + 1,
                         IF Elem(s, k) >= Elem(s, best) THEN k ELSE best)

\* for item in list { if item > largest { largest = item; } }
\* from the item at k on, with largest pointing at best
RECURSIVE LargestFrom(_, _, _)
LargestFrom(s, k, best) ==
    IF k >= Len(s) THEN best
    ELSE LargestFrom(s, k + 1,
                     IF Elem(s, k) > Elem(s, best) THEN k ELSE best)

\* fn largest<T: PartialOrd>(list: &[T]) -> &T
\* let mut largest = &list[0]; panics when there is no element 0.
largest(s) ==
    IF InRange(s, 0)
      THEN <<"ref", LargestFrom(s, 0, 0)>>
      ELSE Panic("index out of bounds")
\* ------------------------------------------------------------ match
\* The arms of match value { ... }, each named by its line.
ArmLines == {13, 16, 19, 23, 27, 30}

\* The pattern of the arm, and its guard, accept v.
ArmMatches(arm, v) ==
    CASE arm = 13 -> v = 1
      [] arm = 16 -> v = 2 \/ v = 3
      [] arm = 19 -> v >= 2 /\ v <= 5
      [] arm = 23 -> v > 5
      [] arm = 27 -> v >= 12 /\ v <= 20
      [] arm = 30 -> TRUE

\* What the arm prints: its text, and x where the arm binds it.
ArmMessage(arm, x) ==
    CASE arm = 13 -> <<"one">>
      [] arm = 16 -> <<"two or three">>
      [] arm = 19 -> <<"two through five">>
      [] arm = 23 -> <<"greater than five">>
      [] arm = 27 -> <<"twelve through twenty: {}", x>>
      [] arm = 30 -> <<"something else">>

\* match runs the first arm, from the top, that accepts the value.
MatchArm(v) ==
    CHOOSE arm \in ArmLines :
        /\ ArmMatches(arm, v)
        /\ \A above \in ArmLines : above < arm => ~ArmMatches(above, v)
\* ------------------------------------------------------------ main()
\* Nothing constructed yet.
NoRc == rcStrong = 0 /\ rcLive = 0 /\ rcData = 0 /\ rcFreed = 0
NoArc ==
    /\ arcStrong = 0
    /\ arcLive = [t \in Threads |-> 0]
    /\ arcOp = [t \in Threads |-> "idle"]
    /\ arcOld = [t \in Threads |-> 0]
    /\ arcSeen = [t \in Threads |-> 0]
    /\ arcData = 0
    /\ arcFreedBy = <<>>
NoCell ==
    /\ cellFlag = 0 /\ cellRefs = 0 /\ cellMuts = 0 /\ cellData = 0
    /\ cellRet = "none"
NoMutex ==
    /\ mxLocked = FALSE
    /\ mxGuard = [t \in Threads |-> FALSE]
    /\ mxData = 0
    /\ mxPoisoned = FALSE
NoOwner ==
    /\ hState = [h \in Handles |-> "unbound"]
    /\ hPtr = [h \in Handles |-> 0]
    /\ heapOwner = [p \in Payloads |-> 0]
    /\ heapDrops = [p \in Payloads |-> 0]
    /\ heapData = [p \in Payloads |-> <<>>]
    /\ heapNext = 1
    /\ ownLast = <<"none", 0, "none">>

NoLib ==
    /\ fnCall = <<"none">> /\ fnRet = <<"none">>
    /\ slice = <<>> /\ sortI = 0 /\ sortJ = 0 /\ minIndex = 0
    /\ ctrIncs = 0

\* The state before main() of src/22-pointers/pointers.rs reaches line 80.
Init ==
    /\ pc = [t \in Threads |-> IF t = Main THEN "L80" ELSE "idle"]
    /\ stdout = <<>>
    /\ NoRc /\ NoArc /\ NoCell /\ NoMutex /\ NoOwner /\ NoLib

Goto(t, l) == pc' = [pc EXCEPT ![t] = l]
At(l) == pc[Main] = l

\* let rc1 = Rc::new(5);
MainRcNew ==
    /\ At("L80") /\ RcNew(5) /\ Goto(Main, "L81")
    /\ UNCHANGED <<stdout, arcVars, cellVars, mxVars, ownVars, libVars>>

\* println!("reference count of rc1: {}", Rc::strong_count(&rc1));
MainRcPrint ==
    /\ \E l \in {<<"L81", "L90">>, <<"L91", "L97">>, <<"L98", "L102">>,
                 <<"L106", "L115">>} :
          At(l[1]) /\ Goto(Main, l[2])
    /\ Println("rc1", RcStrongCount)
    /\ UNCHANGED <<rcVars, arcVars, cellVars, mxVars, ownVars, libVars>>

\* let rc2 = Rc::clone(&rc1);  let rc3 = rc1.clone();
MainRcClone ==
    /\ \E l \in {<<"L90", "L91">>, <<"L97", "L98">>} :
          At(l[1]) /\ Goto(Main, l[2])
    /\ RcClone
    /\ UNCHANGED <<stdout, arcVars, cellVars, mxVars, ownVars, libVars>>

\* } : rc3, then rc2, go out of scope.
MainRcScopeEnd ==
    /\ \E l \in {<<"L102", "L102b">>, <<"L102b", "L106">>} :
          At(l[1]) /\ Goto(Main, l[2])
    /\ RcDrop
    /\ UNCHANGED <<stdout, arcVars, cellVars, mxVars, ownVars, libVars>>

\* let arc1 = Arc::new(5);
MainArcNew ==
    /\ At("L115") /\ ArcNew(Main, 5) /\ Goto(Main, "L116")
    /\ UNCHANGED <<stdout, rcVars, cellVars, mxVars, ownVars, libVars>>

\* let arc2 = Arc::clone(&arc1);  let arc3 = arc1.clone();
MainArcClone ==
    /\ \/ At("L116") \/ At("L117")
    /\ ArcCloneInc(Main)
    /\ UNCHANGED <<ctlVars, rcVars, cellVars, mxVars, ownVars, libVars>>

MainArcCloneRet ==
    /\ \E l \in {<<"L116", "L117">>, <<"L117", "L119">>} :
          At(l[1]) /\ Goto(Main, l[2])
    /\ ArcCloneRet(Main)
    /\ UNCHANGED <<stdout, rcVars, cellVars, mxVars, ownVars, libVars>>

\* A spawn that moves the handle into a thread that is never started.
MainSpawnNoStart ==
    /\ \E s \in {<<"L119", "L126", 1>>, <<"L126", "L133", 2>>} :
          /\ At(s[1])
          /\ ArcMove(Main, s[3])
          /\ Goto(Main, s[2])
    /\ UNCHANGED <<stdout, rcVars, cellVars, mxVars, ownVars, libVars>>
\* let thread1 = thread::spawn(move || ...);  arc2 moves into thread1,
\* let thread2 = thread::spawn(move || ...);  arc3 into thread2.
MainSpawn ==
    /\ \E s \in {<<"L119", "L126", 1>>, <<"L126", "L133", 2>>} :
          /\ At(s[1])
          /\ ArcMove(Main, s[3])
          /\ pc' = [pc EXCEPT ![Main] = s[2], ![s[3]] = "count"]
    /\ UNCHANGED <<stdout, rcVars, cellVars, mxVars, ownVars, libVars>>

ThreadTag(t) == IF t = 1 THEN "thread1" ELSE "thread2"

\* Arc::strong_count(&arc2) in the closure of a spawned thread.
ThreadCount(t) ==
    /\ pc[t] = "count" /\ ArcStrongCount(t) /\ Goto(t, "print")
    /\ UNCHANGED <<stdout, rcVars, cellVars, mxVars, ownVars, libVars>>

\* println!("reference count of arc in thread1: {}", ...);
ThreadPrint(t) ==
    /\ pc[t] = "print" /\ Goto(t, "drop")
    /\ Println(ThreadTag(t), arcSeen[t])
    /\ UNCHANGED <<rcVars, arcVars, cellVars, mxVars, ownVars, libVars>>

\* }); the closure returns and the handle it captured is dropped.
ThreadDrop(t) ==
    /\ pc[t] = "drop" /\ ArcDropDec(t) /\ Goto(t, "check")
    /\ UNCHANGED <<stdout, rcVars, cellVars, mxVars, ownVars, libVars>>

ThreadDropCheck(t) ==
    /\ pc[t] = "check" /\ ArcDropCheck(t) /\ Goto(t, "done")
    /\ UNCHANGED <<stdout, rcVars, cellVars, mxVars, ownVars, libVars>>

\* A join that returns before the thread has finished.
MainJoinNoWait ==
    /\ \E s \in {<<"L133", "L134", 1>>, <<"L134", "L137", 2>>} :
          At(s[1]) /\ Goto(Main, s[2])
    /\ UNCHANGED <<stdout, rcVars, arcVars, cellVars, mxVars, ownVars, libVars>>

\* thread1.join().unwrap();  thread2.join().unwrap();
MainJoin ==
    /\ \E s \in {<<"L133", "L134", 1>>, <<"L134", "L137", 2>>} :
          At(s[1]) /\ pc[s[3]] = "done" /\ Goto(Main, s[2])
    /\ UNCHANGED <<stdout, rcVars, arcVars, cellVars, mxVars, ownVars, libVars>>

\* println!("reference count of arc1: {}", Arc::strong_count(&arc1));
MainArcCount ==
    /\ At("L137") /\ ArcStrongCount(Main) /\ Goto(Main, "L137p")
    /\ UNCHANGED <<stdout, rcVars, cellVars, mxVars, ownVars, libVars>>

MainArcPrint ==
    /\ At("L137p") /\ Goto(Main, "L148")
    /\ Println("arc1", arcSeen[Main])
    /\ UNCHANGED <<rcVars, arcVars, cellVars, mxVars, ownVars, libVars>>

\* let refcell1: RefCell<i32> = RefCell::new(5);
MainCellNew ==
    /\ At("L148") /\ CellNew(5) /\ Goto(Main, "L149")
    /\ UNCHANGED <<stdout, rcVars, arcVars, mxVars, ownVars, libVars>>

\* *refcell1.borrow_mut() += 1;  the guard is a temporary of the statement.
MainCellBorrowMut ==
    /\ At("L149") /\ CellBorrowMut
    /\ Goto(Main, IF CellCanBorrowMut THEN "L149w" ELSE "panicked")
    /\ UNCHANGED <<stdout, rcVars, arcVars, mxVars, ownVars, libVars>>

MainCellWrite ==
    /\ At("L149w") /\ CellWrite /\ Goto(Main, "L149d")
    /\ UNCHANGED <<stdout, rcVars, arcVars, mxVars, ownVars, libVars>>

MainCellDropRefMut ==
    /\ At("L149d") /\ CellDropRefMut /\ Goto(Main, "L150")
    /\ UNCHANGED <<stdout, rcVars, arcVars, mxVars, ownVars, libVars>>

\* println!("{:?}", *refcell1.borrow());
MainCellBorrow ==
    /\ At("L150") /\ CellBorrow
    /\ Goto(Main, IF CellCanBorrow THEN "L150p" ELSE "panicked")
    /\ UNCHANGED <<stdout, rcVars, arcVars, mxVars, ownVars, libVars>>

MainCellPrint ==
    /\ At("L150p") /\ cellRefs > 0 /\ Goto(Main, "L150d")
    /\ Println("refcell1", cellData)
    /\ UNCHANGED <<rcVars, arcVars, cellVars, mxVars, ownVars, libVars>>

MainCellDropRef ==
    /\ At("L150d") /\ CellDropRef /\ Goto(Main, "L189")
    /\ UNCHANGED <<stdout, rcVars, arcVars, mxVars, ownVars, libVars>>

\* let mutex = Mutex::new(5);
MainMutexNew ==
    /\ At("L189") /\ MutexNew(5) /\ Goto(Main, "L192")
    /\ UNCHANGED <<stdout, rcVars, arcVars, cellVars, ownVars, libVars>>

\* let mut mutex_guard = mutex.lock().unwrap();
MainMutexLock ==
    /\ At("L192") /\ MutexLock(Main) /\ Goto(Main, "L196")
    /\ UNCHANGED <<stdout, rcVars, arcVars, cellVars, ownVars, libVars>>

\* *mutex_guard += 1;
MainMutexWrite ==
    /\ At("L196") /\ MutexWrite(Main) /\ Goto(Main, "L197")
    /\ UNCHANGED <<stdout, rcVars, arcVars, cellVars, ownVars, libVars>>

\* println!("{:?}", &mutex_guard);
MainMutexPrintGuard ==
    /\ At("L197") /\ mxGuard[Main] /\ Goto(Main, "L200")
    /\ Println("mutex_guard", mxData)
    /\ UNCHANGED <<rcVars, arcVars, cellVars, mxVars, ownVars, libVars>>

\* drop(mutex_guard);
MainMutexDrop ==
    /\ At("L200") /\ MutexGuardDrop(Main) /\ Goto(Main, "L203")
    /\ UNCHANGED <<stdout, rcVars, arcVars, cellVars, ownVars, libVars>>

\* println!("{:?}", mutex);
MainMutexTryLock ==
    /\ At("L203") /\ MutexTryLock(Main) /\ Goto(Main, "L203p")
    /\ UNCHANGED <<stdout, rcVars, arcVars, cellVars, ownVars, libVars>>

MainMutexPrint ==
    /\ At("L203p") /\ Goto(Main, "L204")
    /\ Println("mutex", MutexDebug(Main))
    /\ MutexDebugEnd(Main)
    /\ UNCHANGED <<rcVars, arcVars, cellVars, ownVars, libVars>>

\* } : the locals of main go out of scope, the last declared first.
MainEndArc ==
    /\ At("L204") /\ ArcDropDec(Main) /\ Goto(Main, "L204c")
    /\ UNCHANGED <<stdout, rcVars, cellVars, mxVars, ownVars, libVars>>

MainEndArcCheck ==
    /\ At("L204c") /\ ArcDropCheck(Main) /\ Goto(Main, "L204r")
    /\ UNCHANGED <<stdout, rcVars, cellVars, mxVars, ownVars, libVars>>

MainEndRc ==
    /\ At("L204r") /\ RcDrop /\ Goto(Main, "done")
    /\ UNCHANGED <<stdout, arcVars, cellVars, mxVars, ownVars, libVars>>

Next ==
    \/ MainRcNew \/ MainRcPrint \/ MainRcClone \/ MainRcScopeEnd
    \/ MainArcNew \/ MainArcClone \/ MainArcCloneRet \/ MainSpawn
    \/ \E t \in Spawned : ThreadCount(t)
    \/ \E t \in Spawned : ThreadPrint(t)
    \/ \E t \in Spawned : ThreadDrop(t)
    \/ \E t \in Spawned : ThreadDropCheck(t)
    \/ MainJoin \/ MainArcCount \/ MainArcPrint
    \/ MainCellNew \/ MainCellBorrowMut \/ MainCellWrite
    \/ MainCellDropRefMut \/ MainCellBorrow \/ MainCellPrint
    \/ MainCellDropRef
    \/ MainMutexNew \/ MainMutexLock \/ MainMutexWrite
    \/ MainMutexPrintGuard \/ MainMutexDrop
    \/ MainMutexTryLock \/ MainMutexPrint
    \/ MainEndArc \/ MainEndArcCheck \/ MainEndRc

Spec == Init /\ [][Next]_vars

\* The steps of spawned thread t, and those of main.
ThreadNext(t) ==
    ThreadCount(t) \/ ThreadPrint(t) \/ ThreadDrop(t) \/ ThreadDropCheck(t)
MainNext == Next /\ \A t \in Spawned : ~ThreadNext(t)

\* main() under a scheduler that lets every thread that can run take its
\* next step.
SpecFair ==
    /\ Init /\ [][Next]_vars
    /\ WF_vars(MainNext)
    /\ \A t \in Spawned : WF_vars(ThreadNext(t))
\* ------------------------------------------------- Arc, from every thread
\* After let arc1 = Arc::new(5) in main: threads clone, move and drop
\* handles in every order.
InitArc ==
    /\ pc = [t \in Threads |-> "idle"]
    /\ stdout = <<>>
    /\ NoRc /\ NoCell /\ NoMutex /\ NoOwner /\ NoLib
    /\ arcStrong = 1
    /\ arcLive = [t \in Threads |-> IF t = Main THEN 1 ELSE 0]
    /\ arcOp = [t \in Threads |-> "idle"]
    /\ arcOld = [t \in Threads |-> 0]
    /\ arcSeen = [t \in Threads |-> 0]
    /\ arcData = 5
    /\ arcFreedBy = <<>>

notArc == <<ctlVars, rcVars, cellVars, mxVars, ownVars, libVars>>

AnyArcClone(t) ==
    /\ arcStrong < MaxHandles
    /\ ArcCloneInc(t)
    /\ UNCHANGED notArc
AnyArcCloneRet(t) == ArcCloneRet(t) /\ UNCHANGED notArc
AnyArcMove(t, u) == t # u /\ ArcMove(t, u) /\ UNCHANGED notArc
AnyArcDrop(t) == ArcDropDec(t) /\ UNCHANGED notArc
AnyArcDropCheck(t) == ArcDropCheck(t) /\ UNCHANGED notArc

NextArc ==
    \/ \E t \in Threads : AnyArcClone(t)
    \/ \E t \in Threads : AnyArcCloneRet(t)
    \/ \E t \in Threads : \E u \in Threads : AnyArcMove(t, u)
    \/ \E t \in Threads : AnyArcDrop(t)
    \/ \E t \in Threads : AnyArcDropCheck(t)

SpecArc == InitArc /\ [][NextArc]_vars

\* ------------------------------------------- Rc and Arc, in every order
\* After let rc1 = Rc::new(5) and let arc1 = Arc::new(5): main clones and
\* drops Rc handles (an Rc cannot leave its thread) while every thread
\* clones, moves and drops Arc handles.
InitCounted ==
    /\ pc = [t \in Threads |-> "idle"]
    /\ stdout = <<>>
    /\ NoCell /\ NoMutex /\ NoOwner /\ NoLib
    /\ rcStrong = 1 /\ rcLive = 1 /\ rcData = 5 /\ rcFreed = 0
    /\ arcStrong = 1
    /\ arcLive = [t \in Threads |-> IF t = Main THEN 1 ELSE 0]
    /\ arcOp = [t \in Threads |-> "idle"]
    /\ arcOld = [t \in Threads |-> 0]
    /\ arcSeen = [t \in Threads |-> 0]
    /\ arcData = 5
    /\ arcFreedBy = <<>>

notRc == <<ctlVars, arcVars, cellVars, mxVars, ownVars, libVars>>

AnyRcClone == rcStrong < MaxHandles /\ RcClone /\ UNCHANGED notRc
AnyRcDrop == RcDrop /\ UNCHANGED notRc

NextCounted == AnyRcClone \/ AnyRcDrop \/ NextArc

SpecCounted == InitCounted /\ [][NextCounted]_vars
\* ------------------------------------------------- RefCell, in every order
\* After RefCell::new(5) (main) or RefCell::new(0) (Counter::new): borrows,
\* writes and guard drops in every order, until a call panics.
InitCell ==
    /\ pc = [t \in Threads |-> "idle"]
    /\ stdout = <<>>
    /\ NoRc /\ NoArc /\ NoMutex /\ NoOwner /\ NoLib
    /\ cellFlag = 0 /\ cellRefs = 0 /\ cellMuts = 0
    /\ cellData \in {0, 5}
    /\ cellRet = "new"

notCell == <<ctlVars, rcVars, arcVars, mxVars, ownVars, libVars>>

AnyCellBorrow == cellRefs < MaxRefs /\ CellBorrow /\ UNCHANGED notCell
AnyCellBorrowMut == cellMuts < MaxRefs /\ CellBorrowMut /\ UNCHANGED notCell
AnyCellDropRef == CellDropRef /\ UNCHANGED notCell
AnyCellDropRefMut == CellDropRefMut /\ UNCHANGED notCell
AnyCellWrite == cellData < MaxData /\ CellWrite /\ UNCHANGED notCell

NextCell ==
    \/ AnyCellBorrow \/ AnyCellBorrowMut
    \/ AnyCellDropRef \/ AnyCellDropRefMut \/ AnyCellWrite

SpecCell == InitCell /\ [][NextCell]_vars

\* ------------------------------------------------- Mutex, from every thread
\* After let mutex = Mutex::new(5): every thread runs lines 192 to 203
\* (lock, write, read, drop the guard, format the mutex) again and again.
InitMutex ==
    /\ pc = [t \in Threads |-> "L192"]
    /\ stdout = <<>>
    /\ NoRc /\ NoArc /\ NoCell /\ NoOwner /\ NoLib
    /\ mxLocked = FALSE
    /\ mxGuard = [t \in Threads |-> FALSE]
    /\ mxData = 5
    /\ mxPoisoned = FALSE

notMutex == <<stdout, rcVars, arcVars, cellVars, ownVars, libVars>>

AnyMutexLock(t) ==
    /\ pc[t] = "L192" /\ MutexLock(t) /\ Goto(t, "L196")
    /\ UNCHANGED notMutex
AnyMutexWrite(t) ==
    /\ pc[t] = "L196" /\ mxData < MaxData /\ MutexWrite(t) /\ Goto(t, "L197")
    /\ UNCHANGED notMutex
AnyMutexRead(t) ==
    /\ pc[t] \in {"L196", "L197"} /\ mxGuard[t] /\ Goto(t, "L200")
    /\ UNCHANGED <<mxVars, notMutex>>
AnyMutexDrop(t) ==
    /\ pc[t] = "L200" /\ MutexGuardDrop(t) /\ Goto(t, "L203")
    /\ UNCHANGED notMutex
AnyMutexTryLock(t) ==
    /\ pc[t] = "L203" /\ MutexTryLock(t) /\ Goto(t, "L203p")
    /\ UNCHANGED notMutex
AnyMutexDebugEnd(t) ==
    /\ pc[t] = "L203p" /\ MutexDebugEnd(t) /\ Goto(t, "L192")
    /\ UNCHANGED notMutex

NextMutex ==
    \/ \E t \in Threads : AnyMutexLock(t)
    \/ \E t \in Threads : AnyMutexWrite(t)
    \/ \E t \in Threads : AnyMutexRead(t)
    \/ \E t \in Threads : AnyMutexDrop(t)
    \/ \E t \in Threads : AnyMutexTryLock(t)
    \/ \E t \in Threads : AnyMutexDebugEnd(t)

SpecMutex == InitMutex /\ [][NextMutex]_vars

\* Every thread is scheduled: a step a thread can take from now on is
\* taken.  std's Mutex promises no order among the threads waiting in
\* lock(), so a waiter is sure of the lock only if it stays free.
SpecMutexFair ==
    /\ InitMutex /\ [][NextMutex]_vars
    /\ \A t \in Threads :
          /\ WF_vars(AnyMutexLock(t))
          /\ WF_vars(AnyMutexRead(t))
          /\ WF_vars(AnyMutexDrop(t))
          /\ WF_vars(AnyMutexTryLock(t))
          /\ WF_vars(AnyMutexDebugEnd(t))

\* ------------------------------------- the guards of RefCell and Mutex
\* A run on a RefCell (as SpecCell) or a run on a Mutex (as SpecMutex).
InitGuards == InitCell \/ InitMutex

NextGuards ==
    \/ cellRet # "none" /\ NextCell
    \/ cellRet = "none" /\ NextMutex

SpecGuards == InitGuards /\ [][NextGuards]_vars
\* ------------------------------------- Mutex, with a failing holder
\* As SpecMutex, and println! of line 197 may panic (it does when the
\* write to stdout fails) while the thread holds the guard; lock() on a
\* poisoned mutex returns Err, which unwrap() turns into a panic.
PanicMutexLock(t) ==
    /\ pc[t] = "L192" /\ MutexLock(t)
    /\ Goto(t, IF MutexLockResult = "Ok" THEN "L196" ELSE "L192e")
    /\ UNCHANGED notMutex
PanicMutexUnwrap(t) ==
    /\ pc[t] = "L192e" /\ MutexGuardDropPanicking(t)
    /\ Goto(t, "panic192")
    /\ UNCHANGED notMutex
PanicMutexPrintln(t) ==
    /\ pc[t] = "L197" /\ MutexGuardDropPanicking(t)
    /\ Goto(t, "panic197")
    /\ UNCHANGED notMutex

NextMutexPanic ==
    \/ \E t \in Threads : PanicMutexLock(t)
    \/ \E t \in Threads : PanicMutexUnwrap(t)
    \/ \E t \in Threads : PanicMutexPrintln(t)
    \/ \E t \in Threads : AnyMutexWrite(t)
    \/ \E t \in Threads : AnyMutexRead(t)
    \/ \E t \in Threads : AnyMutexDrop(t)
    \/ \E t \in Threads : AnyMutexTryLock(t)
    \/ \E t \in Threads : AnyMutexDebugEnd(t)

SpecMutexPanic == InitMutex /\ [][NextMutexPanic]_vars

\* Every thread is scheduled; whether println! fails is not the
\* scheduler's choice.
SpecMutexPanicFair ==
    /\ InitMutex /\ [][NextMutexPanic]_vars
    /\ \A t \in Threads :
          /\ WF_vars(PanicMutexLock(t))
          /\ WF_vars(PanicMutexUnwrap(t))
          /\ WF_vars(AnyMutexRead(t))
          /\ WF_vars(AnyMutexDrop(t))
          /\ WF_vars(AnyMutexTryLock(t))
          /\ WF_vars(AnyMutexDebugEnd(t))
\* ------------------------------------------------- Owner, in every order
\* The statements of the ownership samples on String variables, in every
\* order: bind, move, pass by value, use, end of scope.
InitOwner ==
    /\ pc = [t \in Threads |-> "idle"]
    /\ stdout = <<>>
    /\ NoRc /\ NoArc /\ NoCell /\ NoMutex /\ NoOwner /\ NoLib

notOwner == <<ctlVars, rcVars, arcVars, cellVars, mxVars, libVars>>

AnyOwnNew(h) == OwnNew(h) /\ UNCHANGED notOwner
AnyOwnMove(a, b) == OwnMove(a, b) /\ UNCHANGED notOwner
AnyOwnTakes(a) == OwnTakes(a) /\ UNCHANGED notOwner
AnyOwnUse(h) == OwnUse(h) /\ UNCHANGED notOwner
AnyOwnScopeEnd(h) == OwnScopeEnd(h) /\ UNCHANGED notOwner

NextOwner ==
    \/ \E h \in Handles : AnyOwnNew(h)
    \/ \E a \in Handles : \E b \in Handles : AnyOwnMove(a, b)
    \/ \E a \in Handles : AnyOwnTakes(a)
    \/ \E h \in Handles : AnyOwnUse(h)
    \/ \E h \in Handles : AnyOwnScopeEnd(h)

SpecOwner == InitOwner /\ [][NextOwner]_vars

\* ------------------------------------------------------------ Counter
\* After let c = Counter::new(): count is RefCell::new(0).  main calls
\* c.increment() and c.get() in every order; a Counter is not Sync, so
\* the calls come one after the other.  fnRet is the u32 the last get()
\* returned: increment() returns nothing.
InitCounter ==
    /\ pc = [t \in Threads |-> "idle"]
    /\ stdout = <<>>
    /\ NoRc /\ NoArc /\ NoMutex /\ NoOwner /\ NoLib
    /\ cellFlag = 0 /\ cellRefs = 0 /\ cellMuts = 0
    /\ cellData = 0
    /\ cellRet = "new"

notCounter == <<stdout, rcVars, arcVars, mxVars, ownVars, sortVars>>

\* c.increment():  let mut count = self.count.borrow_mut();
CounterIncBorrowMut ==
    /\ At("idle") /\ ctrIncs < MaxData
    /\ CellBorrowMut
    /\ Goto(Main, IF CellCanBorrowMut THEN "L173" ELSE "panicked")
    /\ fnCall' = <<"increment">>
    /\ UNCHANGED <<fnRet, ctrIncs, notCounter>>

\* *count += 1;
CounterIncWrite ==
    /\ At("L173") /\ CellWrite /\ Goto(Main, "L174")
    /\ UNCHANGED <<fnVars, ctrIncs, notCounter>>

\* An increment whose guard is still alive when the call has returned.
CounterIncReturnKeepsGuard ==
    /\ At("L174") /\ Goto(Main, "idle")
    /\ ctrIncs' = ctrIncs + 1
    /\ UNCHANGED <<cellVars, fnVars, notCounter>>

\* } : count goes out of scope and increment returns.
CounterIncReturn ==
    /\ At("L174") /\ CellDropRefMut /\ Goto(Main, "idle")
    /\ ctrIncs' = ctrIncs + 1
    /\ UNCHANGED <<fnVars, notCounter>>

\* c.get():  *self.count.borrow()
CounterGetBorrow ==
    /\ At("idle")
    /\ CellBorrow
    /\ Goto(Main, IF CellCanBorrow THEN "L180" ELSE "panicked")
    /\ fnCall' = <<"get">>
    /\ UNCHANGED <<fnRet, ctrIncs, notCounter>>

\* The u32 under the guard is copied out as the value of get ...
CounterGetRead ==
    /\ At("L180") /\ cellRefs > 0 /\ Goto(Main, "L181")
    /\ fnRet' = <<"u32", cellData>>
    /\ UNCHANGED <<cellVars, fnCall, ctrIncs, notCounter>>

\* ... and the temporary guard is dropped as get returns.
CounterGetReturn ==
    /\ At("L181") /\ CellDropRef /\ Goto(Main, "idle")
    /\ UNCHANGED <<fnVars, ctrIncs, notCounter>>

NextCounter ==
    \/ CounterIncBorrowMut \/ CounterIncWrite \/ CounterIncReturn
    \/ CounterGetBorrow \/ CounterGetRead \/ CounterGetReturn

SpecCounter == InitCounter /\ [][NextCounter]_vars

\* ------------------------------------------------------------ Result, called
\* The functions of error-handling.rs are called once, on arguments taken
\* from the ends of i32, the operands around an overflowing product and
\* the small integers.
I32Samples ==
    {I32Min, I32Min + 1, I32Max - 1, I32Max,
     46340, 46341, -46341, 32768, -32768, 65536, -65536,
     1073741824, -1073741824} \cup (-SmallInt .. SmallInt)

InitResult ==
    /\ pc = [t \in Threads |-> "idle"]
    /\ stdout = <<>>
    /\ NoRc /\ NoArc /\ NoCell /\ NoMutex /\ NoOwner
    /\ slice = <<>> /\ sortI = 0 /\ sortJ = 0 /\ minIndex = 0
    /\ ctrIncs = 0
    /\ fnRet = <<"none">>
    /\ \E x \in I32Samples, y \in I32Samples, k \in I32Samples :
          fnCall = <<"args", x, y, k>>

notFn ==
    <<ctlVars, rcVars, arcVars, cellVars, mxVars, ownVars, sortVars, ctrIncs>>

\* divide(x, y)
CallDivide ==
    /\ fnCall[1] = "args"
    /\ fnCall' = <<"divide", fnCall[2], fnCall[3]>>
    /\ fnRet' = divide(fnCall[2], fnCall[3])
    /\ UNCHANGED notFn

\* multiply(a, b)
CallMultiply ==
    /\ fnCall[1] = "args"
    /\ fnCall' = <<"multiply", fnCall[2], fnCall[3]>>
    /\ fnRet' = multiply(fnCall[2], fnCall[3])
    /\ UNCHANGED notFn

\* divide_and_multiply(i, j, k)
CallDivideAndMultiply ==
    /\ fnCall[1] = "args"
    /\ fnCall' = <<"divide_and_multiply", fnCall[2], fnCall[3], fnCall[4]>>
    /\ fnRet' = divide_and_multiply(fnCall[2], fnCall[3], fnCall[4])
    /\ UNCHANGED notFn

\* divide_and_multiply_alias(i, j, k)
CallDivideAndMultiplyAlias ==
    /\ fnCall[1] = "args"
    /\ fnCall' =
          <<"divide_and_multiply_alias", fnCall[2], fnCall[3], fnCall[4]>>
    /\ fnRet' = divide_and_multiply_alias(fnCall[2], fnCall[3], fnCall[4])
    /\ UNCHANGED notFn

NextResult ==
    \/ CallDivide \/ CallMultiply
    \/ CallDivideAndMultiply \/ CallDivideAndMultiplyAlias

SpecResult == InitResult /\ [][NextResult]_vars
\* ------------------------------------------------------------ Sorter
\* SelectionSorter and BubbleSorter sort the same slice, one after the
\* other in either order; the result of the first is kept in fnRet.
Slices == UNION {[1 .. n -> 0 .. MaxVal] : n \in 0 .. MaxLen}

InitSort ==
    /\ pc = [t \in Threads |-> "idle"]
    /\ stdout = <<>>
    /\ NoRc /\ NoArc /\ NoCell /\ NoMutex /\ NoOwner
    /\ slice = <<>> /\ sortI = 0 /\ sortJ = 0 /\ minIndex = 0
    /\ ctrIncs = 0
    /\ fnRet = <<"none">>
    /\ \E s \in Slices : fnCall = <<"args", s>>

notSort ==
    <<stdout, rcVars, arcVars, cellVars, mxVars, ownVars, ctrIncs>>

\* An index out of range panics.
SortPanic ==
    /\ Goto(Main, "panicked")
    /\ fnRet' = Panic("index out of bounds")
    /\ UNCHANGED <<fnCall, sortVars>>

\* sorter.sort(&mut slice), with a sorter that has not sorted yet
CallSort(sorter) ==
    /\ At("idle")
    /\ fnCall[1] # sorter
    /\ fnCall' = <<sorter, fnCall[2]>>
    /\ slice' = fnCall[2]
    /\ sortI' = 0 /\ sortJ' = 0 /\ minIndex' = 0
    /\ Goto(Main, IF sorter = "SelectionSorter" THEN "L161" ELSE "L179")
    /\ UNCHANGED <<fnRet, notSort>>

\* for i in 0..slice.len() {  let mut min_index = i;
SelForI ==
    /\ At("L161")
    /\ IF sortI < Len(slice)
         THEN /\ minIndex' = sortI
              /\ sortJ' = sortI + 1
              /\ Goto(Main, "L163")
         ELSE /\ Goto(Main, "ret")
              /\ UNCHANGED <<sortJ, minIndex>>
    /\ UNCHANGED <<slice, sortI, fnVars, notSort>>

\* for j in i + 1..slice.len() {
\*     if slice[j] < slice[min_index] { min_index = j; }
SelForJ ==
    /\ At("L163") /\ sortJ < Len(slice)
    /\ IF InRange(slice, sortJ) /\ InRange(slice, minIndex)
         THEN /\ minIndex' =
                    IF Elem(slice, sortJ) < Elem(slice, minIndex)
                      THEN sortJ ELSE minIndex
              /\ sortJ' = sortJ + 1
              /\ Goto(Main, "L163")
              /\ UNCHANGED <<slice, sortI, fnVars>>
         ELSE SortPanic
    /\ UNCHANGED notSort

\* slice.swap(i, min_index);
SelSwap ==
    /\ At("L163") /\ ~(sortJ < Len(slice))
    /\ IF InRange(slice, sortI) /\ InRange(slice, minIndex)
         THEN /\ slice' = Swap(slice, sortI, minIndex)
              /\ sortI' = sortI + 1
              /\ Goto(Main, "L161")
              /\ UNCHANGED <<sortJ, minIndex, fnVars>>
         ELSE SortPanic
    /\ UNCHANGED notSort

\* for i in 0..slice.len() {  for j in 0..slice.len() - 1 {
\* slice.len() - 1 is computed in usize, when the outer loop has an i.
BubForI ==
    /\ At("L179")
    /\ IF sortI < Len(slice)
         THEN IF Len(slice) - 1 >= 0
                THEN /\ sortJ' = 0
                     /\ Goto(Main, "L180")
                     /\ UNCHANGED <<slice, sortI, minIndex, fnVars>>
                ELSE /\ Goto(Main, "panicked")
                     /\ fnRet' = Panic("attempt to subtract with overflow")
                     /\ UNCHANGED <<fnCall, sortVars>>
         ELSE /\ Goto(Main, "ret")
              /\ UNCHANGED <<sortVars, fnVars>>
    /\ UNCHANGED notSort

\* if slice[j] > slice[j + 1] { slice.swap(j, j + 1); }
BubForJ ==
    /\ At("L180") /\ sortJ < Len(slice) - 1
    /\ IF InRange(slice, sortJ) /\ InRange(slice, sortJ + 1)
         THEN /\ slice' =
                    IF Elem(slice, sortJ) > Elem(slice, sortJ + 1)
                      THEN Swap(slice, sortJ, sortJ + 1) ELSE slice
              /\ sortJ' = sortJ + 1
              /\ Goto(Main, "L180")
              /\ UNCHANGED <<sortI, minIndex, fnVars>>
         ELSE SortPanic
    /\ UNCHANGED notSort

\* } : the inner loop of the BubbleSorter is over.
BubNextI ==
    /\ At("L180") /\ ~(sortJ < Len(slice) - 1)
    /\ sortI' = sortI + 1
    /\ Goto(Main, "L179")
    /\ UNCHANGED <<slice, sortJ, minIndex, fnVars, notSort>>

\* } : sort returns. The first sorter's slice is kept and the other
\* sorter is given the same input; after the second, main is over.
SortReturn ==
    /\ At("ret")
    /\ IF fnRet[1] = "none"
         THEN /\ fnRet' = <<"sorted", fnCall[1], slice>>
              /\ Goto(Main, "idle")
         ELSE /\ Goto(Main, "returned")
              /\ UNCHANGED fnRet
    /\ UNCHANGED <<fnCall, sortVars, notSort>>

NextSort ==
    \/ CallSort("SelectionSorter") \/ CallSort("BubbleSorter")
    \/ SelForI \/ SelForJ \/ SelSwap
    \/ BubForI \/ BubForJ \/ BubNextI
    \/ SortReturn

SpecSort == InitSort /\ [][NextSort]_vars

\* main runs on: a step that can be taken is taken.
SpecSortFair == InitSort /\ [][NextSort]_vars /\ WF_vars(NextSort)
\* ------------------------------------------------------------ slices, read
\* first_element and largest are called once on a slice.
InitSlice == InitSort

\* first_element(&slice)
CallFirstElement ==
    /\ fnCall[1] = "args"
    /\ fnCall' = <<"first_element", fnCall[2]>>
    /\ fnRet' = first_element(fnCall[2])
    /\ UNCHANGED notFn

\* largest(&slice)
CallLargest ==
    /\ fnCall[1] = "args"
    /\ fnCall' = <<"largest", fnCall[2]>>
    /\ fnRet' = largest(fnCall[2])
    /\ UNCHANGED notFn

NextSlice == CallFirstElement \/ CallLargest

SpecSlice == InitSlice /\ [][NextSlice]_vars
\* ------------------------------------------------------------ match, run
\* main of match.rs, with value bound to any of the sampled integers.
MatchValues == {I32Min, I32Max} \cup (-MaxMatch .. MaxMatch)

InitMatch ==
    /\ pc = [t \in Threads |-> "idle"]
    /\ stdout = <<>>
    /\ NoRc /\ NoArc /\ NoCell /\ NoMutex /\ NoOwner
    /\ slice = <<>> /\ sortI = 0 /\ sortJ = 0 /\ minIndex = 0
    /\ ctrIncs = 0
    /\ fnRet = <<"none">>
    /\ \E value \in MatchValues : fnCall = <<"args", value>>

\* match value { ... }
MatchRun ==
    /\ At("idle") /\ fnCall[1] = "args"
    /\ fnCall' = <<"match", fnCall[2]>>
    /\ fnRet' = <<"arm", MatchArm(fnCall[2])>>
    /\ stdout' = Append(stdout, ArmMessage(MatchArm(fnCall[2]), fnCall[2]))
    /\ Goto(Main, "returned")
    /\ UNCHANGED <<rcVars, arcVars, cellVars, mxVars, ownVars, sortVars,
                   ctrIncs>>

NextMatch == MatchRun

SpecMatch == InitMatch /\ [][NextMatch]_vars
\* ------------------------------------- Owner, with references
\* Strings are bound, lent to calculate_length or to change, used and
\* dropped at the end of their scope, in every order.
notBorrow ==
    <<ctlVars, rcVars, arcVars, cellVars, mxVars, sortVars, ctrIncs>>

AnyOwnCalculateLength(h) == OwnCalculateLength(h) /\ UNCHANGED notBorrow
AnyOwnChange(h) ==
    /\ hState[h] = "valid"
    /\ Len(heapData[hPtr[h]]) < Len(Hello) + MaxPushes * Len(World)
    /\ OwnChange(h)
    /\ UNCHANGED notBorrow

NextBorrow ==
    \/ \E h \in Handles : AnyOwnNew(h)
    \/ \E h \in Handles : AnyOwnUse(h)
    \/ \E h \in Handles : AnyOwnScopeEnd(h)
    \/ \E h \in Handles : AnyOwnCalculateLength(h)
    \/ \E h \in Handles : AnyOwnChange(h)

SpecBorrow == InitOwner /\ [][NextBorrow]_vars
\* ------------------------------------------------------------ properties
ArcQuiescent == \A t \in Threads : arcOp[t] = "idle"
MutexHolders == {t \in Threads : mxGuard[t]}

\* C1: whenever no clone or drop is in progress, and so after all of them
\* have completed, the Arc strong count equals the number of live handles
\* over all threads.
ArcCountIsLive == ArcQuiescent => arcStrong = ArcLiveTotal

\* Handles are spread over two spawned threads, main has dropped its own,
\* and nothing is in progress.
ArcCountIsLiveWitness ==
    /\ ArcQuiescent
    /\ arcLive[Main] = 0 /\ arcLive[1] = 1 /\ arcLive[2] = 1
    /\ arcStrong = 2

\* Threads that have seen, or have acted on, the count going to zero.
ArcZeroObservers ==
    Cardinality({t \in Threads : arcOp[t] = "drop_check" /\ arcOld[t] = 1})
        + Len(arcFreedBy)

\* C2: the transition of the Arc count to zero is seen by exactly one
\* thread, the payload is never destroyed twice, and once every handle is
\* dropped and every drop has completed it has been destroyed once.
ArcDestroyedOnce ==
    /\ ArcZeroObservers <= 1
    /\ Len(arcFreedBy) <= 1
    /\ arcStrong = 0 => ArcZeroObservers = 1
    /\ (ArcQuiescent /\ ArcLiveTotal = 0) => Len(arcFreedBy) = 1

\* Two threads have both done their fetch_sub and neither has yet looked at
\* what it returned; the count is zero.
ArcDestroyedOnceWitness ==
    /\ arcOp[1] = "drop_check" /\ arcOp[2] = "drop_check"
    /\ arcStrong = 0

\* C3: at most one thread holds the mutex, and the state is Locked exactly
\* when one thread is the holder.
MutexExclusive ==
    /\ Cardinality(MutexHolders) <= 1
    /\ mxLocked <=> Cardinality(MutexHolders) = 1

\* Thread 1 holds the lock a second time round while the two other threads
\* wait in lock().
MutexExclusiveWitness ==
    /\ mxLocked /\ mxGuard[1] /\ mxData > 6
    /\ pc[Main] = "L192" /\ pc[2] = "L192"

\* C4 as stated: a step in which a holder drops its guard leaves the mutex
\* Unlocked, and every thread waiting in lock() gets the lock.
MutexWaiterAcquires ==
    /\ [][\A t \in Threads : (mxGuard[t] /\ ~mxGuard'[t]) => ~mxLocked']_vars
    /\ \A t \in Threads : (pc[t] = "L192") ~> mxGuard[t]

\* C4 as amended: a step in which a holder drops its guard leaves the mutex
\* Unlocked, a held lock is released, and while a thread waits in lock()
\* some thread gets the lock.
MutexReleaseNoDeadlock ==
    /\ [][\A t \in Threads : (mxGuard[t] /\ ~mxGuard'[t]) => ~mxLocked']_vars
    /\ mxLocked ~> ~mxLocked
    /\ (\E t \in Threads : pc[t] = "L192") ~> (\E t \in Threads : mxGuard[t])

\* Thread 1 waits in lock() while main, about to drop its guard, holds the
\* lock.
MutexReleaseNoDeadlockWitness ==
    /\ pc[1] = "L192" /\ mxGuard[Main] /\ pc[Main] = "L200"

\* C5: the live guards of a RefCell are none, or one exclusive guard and no
\* shared guard, or shared guards and no exclusive guard.
CellGuardsExclusive ==
    \/ cellRefs = 0 /\ cellMuts = 0
    \/ cellRefs = 0 /\ cellMuts = 1
    \/ cellRefs >= 1 /\ cellMuts = 0

\* Two shared guards are alive after an exclusive guard wrote and was
\* dropped.
CellGuardsExclusiveWitness ==
    cellRefs = 2 /\ cellMuts = 0 /\ cellData = 6

\* C6: borrow() fails exactly when an exclusive guard is outstanding,
\* borrow_mut() fails exactly when any guard is outstanding, no other step
\* fails, and a failure is there only with the conflict that raised it.
CellConflictRule ==
    /\ [][/\ AnyCellBorrow =>
                /\ cellRet' = "BorrowError" <=> cellMuts > 0
                /\ cellRet' = "Ref" <=> cellMuts = 0
          /\ AnyCellBorrowMut =>
                /\ cellRet' = "BorrowMutError" <=> cellRefs + cellMuts > 0
                /\ cellRet' = "RefMut" <=> cellRefs + cellMuts = 0
          /\ (cellRet' \in {"BorrowError", "BorrowMutError"}) =>
                (AnyCellBorrow \/ AnyCellBorrowMut)]_vars
    /\ [](cellRet = "BorrowError" => cellMuts > 0)
    /\ [](cellRet = "BorrowMutError" => cellRefs + cellMuts > 0)

\* As in src/24-pointers/pointers.rs: borrow_mut() has failed with a shared
\* guard alive.
CellConflictRuleWitness ==
    cellRet = "BorrowMutError" /\ cellRefs = 1 /\ cellMuts = 0

\* C7: a use is accepted only through the variable that owns the payload;
\* every use of a variable whose value was moved out is rejected.
OwnUseAfterMoveFails ==
    \A h \in Handles :
        (ownLast[1] = "use" /\ ownLast[2] = h) =>
            (ownLast[3] = "ok" <=> heapOwner[hPtr[h]] = h)

\* A variable was used after its value was moved to another variable, which
\* still owns it.
OwnUseAfterMoveFailsWitness ==
    \E a \in Handles : \E b \in Handles :
        /\ ownLast = <<"use", a, "moved">>
        /\ hState[a] = "moved" /\ hState[b] = "valid" /\ hPtr[b] = hPtr[a]

\* A spawned thread has read the count.
ThreadHasRead(t) == pc[t] \in {"print", "drop", "check", "done"}
\* A spawned thread has done the fetch_sub of its handle.
ThreadHasDropped(t) == pc[t] \in {"check", "done"}

\* C8 as stated: each thread's read of strong_count returns 3.
ThreadReadsThree ==
    \A t \in {1, 2} : ThreadHasRead(t) => arcSeen[t] = 3

\* C8 as amended: a thread's read returns 3 when the other thread has not
\* yet dropped its handle and 2 when it has, and the two reads are never
\* both 2.
ThreadReadsLive ==
    /\ [][\A t \in {1, 2} :
            (pc[t] = "count" /\ pc'[t] = "print") =>
                arcSeen'[t] = IF ThreadHasDropped(3 - t) THEN 2 ELSE 3]_vars
    /\ [](\A t \in {1, 2} : ThreadHasRead(t) => arcSeen[t] \in {2, 3})
    /\ []~(ThreadHasRead(1) /\ ThreadHasRead(2)
              /\ arcSeen[1] = 2 /\ arcSeen[2] = 2)

\* Both threads are done; thread1 read 3 and thread2, after thread1's drop,
\* read 2.
ThreadReadsLiveWitness ==
    /\ pc[1] = "done" /\ pc[2] = "done"
    /\ arcSeen[1] = 3 /\ arcSeen[2] = 2

\* C9: once both threads are joined the count is 1, main's read of it is 1,
\* and the payload, not destroyed, is still 5 behind main's handle.
ArcAfterJoin ==
    /\ pc[Main] \in {"L137", "L137p"} =>
          /\ arcStrong = 1 /\ arcLive[Main] = 1
          /\ arcData = 5 /\ arcFreedBy = <<>>
    /\ pc[Main] = "L137p" => arcSeen[Main] = 1

\* main has read the count after the joins; thread2 had printed first.
ArcAfterJoinWitness ==
    /\ pc[Main] = "L137p"
    /\ stdout[5][1] = "thread2" /\ stdout[6][1] = "thread1"

\* The values of the four println! of Rc::strong_count, as far as written.
RcReads ==
    [i \in 1..(IF Len(stdout) < 4 THEN Len(stdout) ELSE 4) |-> stdout[i][2]]

\* C10: Rc::new gives count 1, each clone adds exactly 1 and no payload,
\* each drop takes exactly 1, the count is the number of live handles, and
\* the demonstration prints 1, 2, 3 and, after the inner scope, 1.
RcCountExact ==
    /\ [][/\ MainRcNew => rcStrong' = 1
          /\ MainRcClone =>
                /\ rcStrong' = rcStrong + 1
                /\ rcLive' = rcLive + 1
                /\ rcData' = rcData
          /\ (MainRcScopeEnd \/ MainEndRc) =>
                /\ rcStrong' = rcStrong - 1
                /\ rcLive' = rcLive - 1]_vars
    /\ [](rcStrong = rcLive)
    /\ [](RcReads = SubSeq(<<1, 2, 3, 1>>, 1, Len(RcReads)))
    /\ [](pc[Main] = "L115" => Len(stdout) = 4)

\* The four counts are printed and the Arc part starts.
RcCountExactWitness ==
    /\ pc[Main] = "L115"
    /\ stdout = <<<<"rc1", 1>>, <<"rc1", 2>>, <<"rc1", 3>>, <<"rc1", 1>>>>


\* C11: the payload of an Rc or of an Arc is destroyed exactly when its
\* count reaches zero: it is never destroyed while a handle is live, and
\* the drop of the last live handle destroys it (for an Arc, before that
\* drop returns).
CountedFreedAtZero ==
    /\ rcFreed = (IF rcStrong = 0 THEN 1 ELSE 0)
    /\ rcLive > 0 => rcFreed = 0
    /\ rcLive = 0 => rcFreed = 1
    /\ ArcLiveTotal > 0 => arcFreedBy = <<>>
    /\ arcFreedBy # <<>> => arcStrong = 0 /\ Len(arcFreedBy) = 1
    /\ (ArcLiveTotal = 0 /\ ArcQuiescent) => Len(arcFreedBy) = 1

\* Both payloads are gone: the Rc by main's last drop, the Arc by a
\* spawned thread that dropped the last handle.
CountedFreedAtZeroWitness ==
    /\ rcFreed = 1 /\ rcStrong = 0
    /\ Len(arcFreedBy) = 1 /\ arcFreedBy[1] # Main
    /\ arcStrong = 0

\* C12: after Mutex::new(5), lock(), the increment through the guard and
\* the drop of the guard, the next access to the mutex (the try_lock() of
\* the {:?} formatting of line 203) finds the lock free, does not block
\* and observes 6.
MutexAgainSeesSix ==
    /\ At("L196") => mxGuard[Main] /\ mxData = 5
    /\ At("L200") => mxGuard[Main] /\ mxData = 6
    /\ At("L203") => ~mxLocked /\ MutexHolders = {} /\ mxData = 6
    /\ At("L203") => ENABLED MainMutexTryLock
    /\ At("L203p") => mxGuard[Main] /\ MutexDebug(Main) = 6
    /\ At("L204") =>
          /\ ~mxLocked
          /\ stdout[Len(stdout)] = <<"mutex", 6>>
          /\ stdout[Len(stdout) - 1] = <<"mutex_guard", 6>>

\* main has printed the mutex after the guard was dropped.
MutexAgainSeesSixWitness ==
    /\ At("L204")
    /\ stdout[Len(stdout)] = <<"mutex", 6>>
    /\ ~mxLocked

MutexAcquiredBy(t) ==
    /\ AnyMutexLock(t) \/ AnyMutexTryLock(t)
    /\ ~mxLocked /\ mxLocked'
    /\ ~mxGuard[t] /\ mxGuard'[t]
    /\ \A u \in Threads \ {t} : mxGuard'[u] = mxGuard[u] /\ pc'[u] = pc[u]

\* The step is the holder t dropping its guard.
MutexReleasedBy(t) ==
    /\ AnyMutexDrop(t) \/ AnyMutexDebugEnd(t)
    /\ mxLocked /\ ~mxLocked'
    /\ mxGuard[t] /\ ~mxGuard'[t]
    /\ \A u \in Threads \ {t} : mxGuard'[u] = mxGuard[u] /\ pc'[u] = pc[u]

\* C14: the lock state of a Mutex changes in two ways only: from Unlocked
\* to Locked by a lock call (lock(), or the try_lock() std's {:?}
\* formatting makes) of exactly one thread while the other callers stay
\* blocked, and from Locked to Unlocked by the drop of the holder's guard.
\* No lock call succeeds while Locked and no other thread releases.
MutexTwoTransitions ==
    /\ [][(mxLocked' # mxLocked \/ mxGuard' # mxGuard) =>
             \E t \in Threads : MutexAcquiredBy(t) \/ MutexReleasedBy(t)]_vars
    /\ [][\A t \in Threads :
             /\ AnyMutexLock(t) => ~mxLocked /\ MutexAcquiredBy(t)
             /\ (AnyMutexTryLock(t) /\ mxLocked) =>
                   UNCHANGED <<mxLocked, mxGuard>>
             /\ (AnyMutexDebugEnd(t) /\ ~mxGuard[t]) =>
                   UNCHANGED <<mxLocked, mxGuard>>
             /\ AnyMutexDrop(t) => MutexReleasedBy(t)]_vars
    /\ [](\A t \in Threads :
             (mxLocked /\ pc[t] = "L192") => ~ENABLED AnyMutexLock(t))

\* Two threads are blocked in lock() while the third, which won, is about
\* to drop its guard.
MutexTwoTransitionsWitness ==
    /\ mxLocked /\ mxGuard[Main] /\ pc[Main] = "L200"
    /\ \A t \in Spawned : pc[t] = "L192" /\ ~mxGuard[t]

\* Threads whose critical section ended in a panic.
MutexFailedHolders == {t \in Threads : pc[t] = "panic197"}

\* C15: the guard releases the lock on every way out of the critical
\* section: by drop(mutex_guard), by the end of the formatting, and by the
\* panic of the holder.  No panicked thread holds the lock, a held lock is
\* always released, and the lock() of a thread that waits after a holder
\* failed returns.
MutexReleasedOnFailure ==
    /\ [][\A t \in Threads :
             (PanicMutexPrintln(t) \/ PanicMutexUnwrap(t) \/ AnyMutexDrop(t)) =>
                 /\ mxGuard[t] /\ mxLocked
                 /\ ~mxGuard'[t] /\ ~mxLocked']_vars
    /\ [](\A t \in Threads : pc[t] \in {"panic192", "panic197"} => ~mxGuard[t])
    /\ [](mxLocked <=> MutexHolders # {})
    /\ mxLocked ~> ~mxLocked
    /\ \A u \in Threads :
          (MutexFailedHolders # {} /\ pc[u] = "L192") ~> (pc[u] # "L192")

\* A holder has failed in its critical section and another thread has got
\* the lock after it.
MutexReleasedOnFailureWitness ==
    /\ pc[Main] = "panic197"
    /\ \E t \in Spawned : pc[t] = "L192e" /\ mxGuard[t]

\* C16: lock() is unwrapped, and the mutex is poisoned by the panic of a
\* holder.  Once a holder's critical section has ended in a panic every
\* lock() returns Err(PoisonError) and no thread enters the critical
\* section; while no holder has failed, lock() returns Ok and no unwrap()
\* panics.
MutexPoisonReported ==
    /\ [][\A t \in Threads :
             PanicMutexLock(t) =>
                 /\ pc'[t] = "L192e" <=> MutexFailedHolders # {}
                 /\ pc'[t] = "L196" <=> MutexFailedHolders = {}]_vars
    /\ [][\A t \in Threads :
             PanicMutexPrintln(t) => mxPoisoned']_vars
    /\ [][mxPoisoned => mxPoisoned']_vars
    /\ [](mxPoisoned <=> MutexFailedHolders # {})
    /\ [](\A t \in Threads :
             pc[t] \in {"L192e", "panic192"} => MutexFailedHolders # {})
    /\ [](\A t \in Threads :
             pc[t] \in {"L196", "L197", "L200"} =>
                 mxGuard[t] /\ MutexFailedHolders = {})

\* After the panic of a holder a second thread's lock().unwrap() has
\* panicked on the poisoned mutex and a third one's lock() has returned Err.
MutexPoisonReportedWitness ==
    /\ pc[Main] = "panic197"
    /\ \E t \in Spawned : \E u \in Spawned :
          pc[t] = "panic192" /\ pc[u] = "L192e"

\* The variables through which payload p can be reached.
OwnValidHandles(p) == {h \in Handles : hState[h] = "valid" /\ hPtr[h] = p}

\* C17: at every instant at most one variable is valid for a String
\* payload.  After a move by assignment or through takes_and_gives_back
\* the destination is the one valid variable and the source is invalid;
\* after a pass by value to takes_ownership no variable of the caller is
\* valid; the valid variable, if any, is the payload's owner.
OwnSingleValidHandle ==
    /\ [](\A p \in Payloads :
             /\ Cardinality(OwnValidHandles(p)) <= 1
             /\ OwnValidHandles(p) =
                   (IF heapOwner[p] = 0 THEN {} ELSE {heapOwner[p]}))
    /\ [][\A a \in Handles : \A b \in Handles :
             AnyOwnMove(a, b) =>
                 /\ OwnValidHandles(hPtr[a]) = {a}
                 /\ OwnValidHandles(hPtr[a])' = {b}
                 /\ hState'[a] = "moved"]_vars
    /\ [][\A a \in Handles :
             AnyOwnTakes(a) =>
                 /\ OwnValidHandles(hPtr[a]) = {a}
                 /\ OwnValidHandles(hPtr[a])' = {}]_vars
    /\ [][\A h \in Handles :
             (hState[h] = "moved" /\ hState'[h] # "moved") =>
                 hState'[h] = "ended"]_vars

\* A payload has been moved twice: only the last destination is valid.
OwnSingleValidHandleWitness ==
    \E a \in Handles : \E b \in Handles : \E c \in Handles :
        /\ hState[a] = "moved" /\ hState[b] = "moved" /\ hState[c] = "valid"
        /\ a # b
        /\ hPtr[a] = hPtr[c] /\ hPtr[b] = hPtr[c]
        /\ OwnValidHandles(hPtr[c]) = {c}

GuardScopeResets ==
    /\ [](cellFlag = 0 <=> (cellRefs = 0 /\ cellMuts = 0))
    /\ [](~mxLocked <=> MutexHolders = {})
    /\ [][/\ (AnyCellDropRef \/ AnyCellDropRefMut) =>
                (cellFlag' = 0 <=> cellRefs + cellMuts = 1)
          /\ AnyCellBorrowMut =>
                (cellRet' = "RefMut" <=> cellFlag = 0)
          /\ (cellFlag # 0 /\ cellFlag' = 0) =>
                (AnyCellDropRef \/ AnyCellDropRefMut)]_vars
    /\ [][\A t \in Threads :
             /\ AnyMutexDrop(t) => ~mxLocked'
             /\ (AnyMutexDebugEnd(t) /\ mxGuard[t]) => ~mxLocked']_vars
    /\ [](\A t \in Threads :
             (pc[t] = "L192" /\ MutexHolders = {}) => ENABLED AnyMutexLock(t))
    /\ [](\A t \in Threads :
             (pc[t] = "L192" /\ MutexHolders # {}) => ~ENABLED AnyMutexLock(t))

\* borrow_mut() has succeeded again after an earlier exclusive guard wrote
\* and was dropped.
GuardScopeResetsWitness ==
    /\ cellRet = "RefMut" /\ cellMuts = 1 /\ cellFlag = -1
    /\ cellData = 6

\* C20: clone, the move into a thread, drop and strong_count leave the
\* payload of the Arc as Arc::new(5) made it: in every state of the
\* demonstration where a handle is live the payload is there and is 5, and
\* no step after the construction writes it.
ArcPayloadUnchanged ==
    /\ [](\A t \in Threads :
             (arcLive[t] > 0 \/ arcOp[t] = "clone_ret") =>
                 arcData = 5 /\ arcFreedBy = <<>>)
    /\ [][MainArcNew => arcData' = 5]_vars
    /\ [][~MainArcNew => arcData' = arcData]_vars
    /\ [][(\/ MainArcClone \/ MainArcCloneRet \/ MainSpawn \/ MainArcCount
           \/ \E t \in Spawned : ThreadCount(t) \/ ThreadDrop(t)) =>
              /\ arcData = 5 /\ arcData' = 5
              /\ arcFreedBy' = <<>>]_vars

\* thread1 has dropped its handle while thread2 has not read the count
\* yet: the payload is 5 under the two handles left.
ArcPayloadUnchangedWitness ==
    /\ pc[1] = "done" /\ pc[2] = "count"
    /\ arcLive[2] = 1 /\ arcLive[Main] = 1 /\ arcStrong = 2
    /\ arcData = 5

\* C21: under every fair interleaving main() of the pointer demonstration
\* runs to its end: each spawned thread finishes, each join returns, and
\* that only after its thread has finished, no call panics, lock() is
\* called only while the lock is free, and at the end no thread is left
\* running or blocked and the lock is free.
DemoCompletes ==
    /\ <>(pc[Main] = "done")
    /\ \A t \in {1, 2} : (pc[t] = "count") ~> (pc[t] = "done")
    /\ At("L133") ~> At("L134")
    /\ At("L134") ~> At("L137")
    /\ [][MainJoin => \E t \in {1, 2} : pc[t] = "done" /\ pc'[t] = "done"]_vars
    /\ [](At("L137") => pc[1] = "done" /\ pc[2] = "done")
    /\ [](At("L192") => ~mxLocked /\ ENABLED MainMutexLock)
    /\ [](pc[Main] # "panicked")
    /\ [](pc[Main] = "done" =>
             /\ pc[1] = "done" /\ pc[2] = "done"
             /\ ~mxLocked /\ MutexHolders = {}
             /\ cellFlag = 0)

\* main has returned after both threads.
DemoCompletesWitness ==
    /\ pc[Main] = "done" /\ pc[1] = "done" /\ pc[2] = "done"
    /\ ~mxLocked
    /\ stdout[Len(stdout)] = <<"mutex", 6>>

\* C22: lending a String does not move it.  After calculate_length(&s) and
\* after change(&mut s) the variable lent is still valid and still owns
\* its payload; calculate_length returns the length and changes nothing;
\* what change appends is what the owner holds afterwards, "hello, world"
\* for "hello", and no other payload is touched.
BorrowKeepsOwner ==
    /\ [][\A h \in Handles :
             AnyOwnCalculateLength(h) =>
                 /\ hState'[h] = "valid" /\ heapOwner'[hPtr[h]] = h
                 /\ UNCHANGED <<hState, hPtr, heapOwner, heapDrops, heapData>>
                 /\ fnRet'[2] = Len(heapData'[hPtr'[h]])
                 /\ (heapData[hPtr[h]] = Hello => fnRet'[2] = 5)]_vars
    /\ [][\A h \in Handles :
             AnyOwnChange(h) =>
                 /\ hState'[h] = "valid" /\ heapOwner'[hPtr[h]] = h
                 /\ UNCHANGED <<hState, hPtr, heapOwner, heapDrops>>
                 /\ heapData'[hPtr'[h]] = heapData[hPtr[h]] \o World
                 /\ \A p \in Payloads \ {hPtr[h]} : heapData'[p] = heapData[p]
                 /\ (heapData[hPtr[h]] = Hello =>
                        heapData'[hPtr'[h]] =
                           <<"h", "e", "l", "l", "o", ",", " ",
                             "w", "o", "r", "l", "d">>)]_vars
    /\ [][heapData' # heapData =>
             \E h \in Handles : AnyOwnChange(h) \/ AnyOwnNew(h)]_vars

\* s12 has been lent to change and then used: it is valid and holds
\* "hello, world".
BorrowKeepsOwnerWitness ==
    \E h \in Handles :
        /\ ownLast = <<"use", h, "ok">>
        /\ fnCall = <<"change", h>>
        /\ hState[h] = "valid"
        /\ heapData[hPtr[h]] = Hello \o World

\* C23: on a Counter made by Counter::new() no increment() and no get()
\* panics on a borrow conflict, whatever the calls before it; no guard is
\* alive between two calls; and get() returns the number of increment()
\* calls that have returned.
CounterCounts ==
    /\ [](pc[Main] # "panicked" /\ ~CellPanicked)
    /\ [](At("idle") => cellFlag = 0 /\ cellRefs = 0 /\ cellMuts = 0)
    /\ [](At("idle") => cellData = ctrIncs)
    /\ [][CounterIncBorrowMut => cellRet' = "RefMut"]_vars
    /\ [][CounterGetBorrow => cellRet' = "Ref"]_vars
    /\ [][CounterGetRead => fnRet' = <<"u32", ctrIncs>>]_vars
    /\ [](At("idle") /\ fnCall = <<"get">> => fnRet = <<"u32", ctrIncs>>)
    /\ [][CounterIncReturn => ctrIncs' = ctrIncs + 1 /\ cellData' = ctrIncs']_vars
    /\ [](fnRet[1] = "u32" => fnRet[2] <= ctrIncs)

\* get() has returned 3 after three calls of increment().
CounterCountsWitness ==
    /\ At("idle") /\ fnCall = <<"get">>
    /\ fnRet = <<"u32", 3>> /\ ctrIncs = 3

\* C24: a borrow() or borrow_mut() that fails on a conflict changes
\* nothing in the cell: the flag, the payload and the guards alive are
\* after the call what they were before it, and the flag still counts
\* them.
CellFailureKeepsState ==
    /\ [][(AnyCellBorrow /\ cellRet' = "BorrowError") =>
             /\ UNCHANGED <<cellFlag, cellRefs, cellMuts, cellData>>
             /\ cellMuts = 1 /\ cellFlag' = -1]_vars
    /\ [][(AnyCellBorrowMut /\ cellRet' = "BorrowMutError") =>
             /\ UNCHANGED <<cellFlag, cellRefs, cellMuts, cellData>>
             /\ cellRefs + cellMuts > 0
             /\ cellFlag' = (IF cellMuts' = 1 THEN -1 ELSE cellRefs')]_vars
    /\ [](CellPanicked =>
             cellFlag = (IF cellMuts = 1 THEN -1 ELSE cellRefs))

\* borrow_mut() has failed with two shared guards alive and the payload
\* written before: both guards and the payload are as they were.
CellFailureKeepsStateWitness ==
    /\ cellRet = "BorrowMutError"
    /\ cellRefs = 2 /\ cellFlag = 2 /\ cellMuts = 0
    /\ cellData = 6

\* The quotient q of x by y rounded towards zero: y * q lies between 0 and
\* x, less than one y away from x.
IsTruncQuot(x, y, q) ==
    LET r == x - y * q
    IN  /\ (x >= 0 => r >= 0 /\ r <= x)
        /\ (x <= 0 => r <= 0 /\ r >= x)
        /\ (y > 0 => r < y /\ -r < y)
        /\ (y < 0 => r > y /\ -r > y)

\* C25: for all i32 x and y, divide(x, y) returns a Result: Err("Division
\* by zero") exactly when y = 0, and otherwise Ok(q) with q the quotient
\* of x by y rounded towards zero, an i32.
DivideReturnsResult ==
    fnCall[1] = "divide" =>
        LET x == fnCall[2]
            y == fnCall[3]
        IN  /\ fnRet[1] \in {"Ok", "Err"}
            /\ (fnRet = Err("Division by zero")) <=> (y = 0)
            /\ y # 0 =>
                  /\ fnRet[1] = "Ok"
                  /\ fnRet[2] \in I32Min .. I32Max
                  /\ IsTruncQuot(x, y, fnRet[2])
\* divide has been called on the least i32 and -1 and has panicked.
DivideOverflowPanics ==
    /\ fnCall = <<"divide", I32Min, -1>>
    /\ fnRet = Panic("attempt to divide with overflow")


\* The magnitude of an i32 other than the least one.
Abs(n) == IF n < 0 THEN -n ELSE n

\* The product of a and b, as integers, lies in I32Min .. I32Max: the
\* magnitudes multiply to at most I32Max when the signs agree, to at most
\* I32Max + 1 when they differ.
ProductInRange(a, b) ==
    IF a = 0 \/ b = 0 THEN TRUE
    ELSE IF a = I32Min THEN b = 1
    ELSE IF b = I32Min THEN a = 1
    ELSE LET ma == Abs(a)
             mb == Abs(b)
             one == IF (a < 0) # (b < 0) /\ I32Max % ma = ma - 1
                      THEN 1 ELSE 0
         IN  mb - one <= I32Max \div ma

\* C26: for all i32 a and b, multiply(a, b) returns Err("Integer overflow
\* on multiplication") exactly when the product a * b of the integers lies
\* outside i32, and Ok(a * b) otherwise.
MultiplyChecked ==
    fnCall[1] = "multiply" =>
        LET a == fnCall[2]
            b == fnCall[3]
        IN  /\ fnRet[1] \in {"Ok", "Err"}
            /\ (fnRet = Err("Integer overflow on multiplication"))
                  <=> ~ProductInRange(a, b)
            /\ ProductInRange(a, b) => fnRet = Ok(a * b)

\* multiply has reported the overflow of 46341 * 46341, and only just: one
\* less fits.
MultiplyCheckedWitness ==
    /\ fnCall = <<"multiply", 46341, 46341>>
    /\ fnRet = Err("Integer overflow on multiplication")
    /\ multiply(46340, 46341) = Ok(46340 * 46341)

\* C27: divide_and_multiply(i, j, k) returns the error of the division
\* when j = 0, else the error of the overflow when (i / j) * k is no i32,
\* else Ok((i / j) * k); divide_and_multiply_alias returns the same
\* outcome for every input.
DivMulPropagates ==
    fnCall[1] \in {"divide_and_multiply", "divide_and_multiply_alias"} =>
        LET i == fnCall[2]
            j == fnCall[3]
            k == fnCall[4]
        IN  /\ fnRet[1] \in {"Ok", "Err"}
            /\ j = 0 => fnRet = Err("Division by zero")
            /\ j # 0 /\ ~ProductInRange(TruncDiv(i, j), k) =>
                  fnRet = Err("Integer overflow on multiplication")
            /\ j # 0 /\ ProductInRange(TruncDiv(i, j), k) =>
                  fnRet = Ok(TruncDiv(i, j) * k)
            /\ fnRet = divide_and_multiply(i, j, k)
            /\ fnRet = divide_and_multiply_alias(i, j, k)

\* divide_and_multiply has been called on the least i32 and -1 and has
\* panicked in its division; so does the alias.
DivMulOverflowPanics ==
    /\ fnCall[1] = "divide_and_multiply"
    /\ fnCall[2] = I32Min /\ fnCall[3] = -1
    /\ fnRet = Panic("attempt to divide with overflow")
    /\ divide_and_multiply_alias(I32Min, -1, fnCall[4]) = fnRet

\* The number of elements of s equal to v.
Count(s, v) == Cardinality({k \in 1 .. Len(s) : s[k] = v})

\* s holds the elements of t, each as often as t does.
IsPermutation(s, t) ==
    /\ Len(s) = Len(t)
    /\ \A k \in 1 .. Len(t) : Count(s, t[k]) = Count(t, t[k])

NonDecreasing(s) == \A k \in 1 .. Len(s) - 1 : s[k] <= s[k + 1]

\* C28: on every slice, the empty and the one-element ones included,
\* SelectionSorter.sort and BubbleSorter.sort index no element out of
\* range, return, and leave the slice as the same result: a permutation
\* of the input in non-decreasing order.
SortersSort ==
    /\ [](pc[Main] # "panicked")
    /\ [](At("ret") =>
            NonDecreasing(slice) /\ IsPermutation(slice, fnCall[2]))
    /\ [](At("returned") => fnRet[1] = "sorted" /\ slice = fnRet[3])
    /\ <>At("returned")

\* Both sorters have returned on a slice of full length that was not in
\* order, and the slice is in order now.
SortersSortWitness ==
    /\ At("returned")
    /\ Len(slice) = MaxLen
    /\ ~NonDecreasing(fnCall[2])
    /\ NonDecreasing(slice)
    /\ fnRet[3] = slice

\* first_element returns None exactly when the slice is empty, and
\* otherwise a reference to the element at index 0.
FirstElementIsFirst ==
    fnCall[1] = "first_element" =>
        /\ (fnRet = <<"None">>) <=> (Len(fnCall[2]) = 0)
        /\ Len(fnCall[2]) # 0 => fnRet = <<"Some", <<"ref", 0>>>>

\* The reference r points at an element of s that no element of s
\* exceeds, and at the first such element.
IsFirstLargest(s, r) ==
    /\ r[1] = "ref"
    /\ InRange(s, r[2])
    /\ \A k \in 0 .. Len(s) - 1 : Elem(s, r[2]) >= Elem(s, k)
    /\ \A k \in 0 .. r[2] - 1 : Elem(s, k) < Elem(s, r[2])

MatchArmsAsNamed ==
    fnCall[1] = "match" =>
        LET v == fnCall[2]
            arm == fnRet[2]
        IN  /\ arm \in ArmLines /\ Len(stdout) = 1
            /\ v = 1 => arm = 13
            /\ v \in {2, 3} => arm = 16
            /\ v \in {4, 5} => arm = 19
            /\ v \in 12 .. 20 => arm = 27
            /\ v > 5 /\ v \notin 12 .. 20 => arm = 23
            /\ v < 1 => arm = 30

\* The value 12 has been matched, by the guard arm: "greater than five"
\* is printed and not "twelve through twenty: 12".
MatchTwelveByGuard ==
    /\ fnCall = <<"match", 12>>
    /\ fnRet = <<"arm", 23>>
    /\ stdout = << <<"greater than five">> >>
=============================================================================
